---- MODULE Spec2Model ----
(***************************************************************************)
(* A model of the research pipeline of stalkerAI:                          *)
(*   - the task router and executor of researcher.execute_research_node,   *)
(*   - the profile fusion of utils.common.structure_profile_data,          *)
(*   - the usage counters of retriever.CostTrackingCallback, under         *)
(*     concurrent calls and within one session of calls in sequence,       *)
(*   - the planner agents.planning_agent.generate_research_plan,           *)
(*   - the graph of researcher.py (plan, research, report) and the entry   *)
(*     points run_research, generate_person_report and main.run_stalker_ai,*)
(*   - the cost trackers of retriever.MultiSourceRetriever.search.         *)
(* Strings are sequences of one-character strings, so that lower(),        *)
(* split(), strip() and substring tests are computed as Python computes    *)
(* them.                                                                   *)
(***************************************************************************)
EXTENDS Integers, Sequences, FiniteSets, TLC

VARIABLES
    \* ---- the router seen as a pure function (researcher.py:57-95)
    rt_goal, rt_text, rt_out, rt_pc,
    \* ---- structure_profile_data seen as a pure function (common.py:8-131)
    f_linkedin, f_github, f_out, f_pc,
    \* ---- the shared cost tracker and the threads that record on it
    tavily_searches, arxiv_searches, th_pc, th_kind, th_tmp,
    \* ---- ResearchState and the locals of execute_research_node
    target_name, persona, plan, error, collected_data, state_sources_log,
    pc, k, routed, tasks, task_state, calls, n, results, sources_log,
    \* ---- the report field of ResearchState, the nodes the graph has entered,
    \* the calls of the reporting LLM, the exception that left the graph, and
    \* what run_stalker_ai gave back to its caller
    report, entered, llm_calls, exc, returned,
    \* ---- generate_research_plan seen as a function of the collaborator's
    \* response (planning_agent.py:11-68): the last call and the one before
    pl_goal, pl_resp, pl_plan, pl_prev,
    \* ---- one cost-tracking session used by one caller (retriever.py:55-184):
    \* the LLM usage, the lines of the cost log, the calls made so far
    openai_usage, cost_log, s_pc, s_calls,
    \* ---- MultiSourceRetriever (retriever.py:186-361): the trackers it has
    \* created, the one self.cost_tracker names, and the costs search returned
    trackers, cost_tracker, sr_costs

routeVars == <<rt_goal, rt_text, rt_out, rt_pc>>
fuseVars  == <<f_linkedin, f_github, f_out, f_pc>>
costVars  == <<tavily_searches, arxiv_searches, th_pc, th_kind, th_tmp>>
runVars   == <<report, entered, llm_calls, exc, returned>>
execVars  == <<target_name, persona, plan, error, collected_data, state_sources_log,
               pc, k, routed, tasks, task_state, calls, n, results, sources_log,
               runVars>>
planVars  == <<pl_goal, pl_resp, pl_plan, pl_prev>>
searchVars == <<trackers, cost_tracker, sr_costs>>
sessVars  == <<openai_usage, cost_log, s_pc, s_calls, searchVars>>
vars      == <<routeVars, fuseVars, costVars, execVars, planVars, sessVars>>

\* Python's None, distinct from every string the program handles.
NoneVal == "<None>"

SetMin(S) == CHOOSE x \in S : \A y \in S : x <= y
SetMax(S) == CHOOSE x \in S : \A y \in S : x >= y

(***************************************************************************)
(* Strings                                                                 *)
(***************************************************************************)
UpperToLower ==
    [A |-> "a", B |-> "b", C |-> "c", D |-> "d", E |-> "e", F |-> "f", G |-> "g",
     H |-> "h", I |-> "i", J |-> "j", K |-> "k", L |-> "l", M |-> "m", N |-> "n",
     O |-> "o", P |-> "p", Q |-> "q", R |-> "r", S |-> "s", T |-> "t", U |-> "u",
     V |-> "v", W |-> "w", X |-> "x", Y |-> "y", Z |-> "z"]

LowerChar(c) == IF c \in DOMAIN UpperToLower THEN UpperToLower[c] ELSE c

\* str.lower()
Lower(s) == [i \in 1..Len(s) |-> LowerChar(s[i])]

\* sub in s
Contains(sub, s) ==
    \E i \in 0..(Len(s) - Len(sub)) : SubSeq(s, i + 1, i + Len(sub)) = sub

\* the whitespace str.split() and str.strip() work on
Whitespace == {" ", "\t", "\n", "\r"}

IsSpace(c) == c \in Whitespace

RECURSIVE SplitAcc(_, _, _, _)
SplitAcc(s, i, cur, acc) ==
    IF i > Len(s)
    THEN IF cur = <<>> THEN acc ELSE Append(acc, cur)
    ELSE IF IsSpace(s[i])
         THEN SplitAcc(s, i + 1, <<>>, IF cur = <<>> THEN acc ELSE Append(acc, cur))
         ELSE SplitAcc(s, i + 1, Append(cur, s[i]), acc)

\* str.split(): the maximal runs of non-whitespace characters
Split(s) == SplitAcc(s, 1, <<>>, <<>>)

\* str.strip(chars)
Strip(w, chars) ==
    LET keep == {i \in 1..Len(w) : w[i] \notin chars}
    IN  IF keep = {} THEN <<>> ELSE SubSeq(w, SetMin(keep), SetMax(keep))

\* w.split("/")[-1]
LastSegment(w) ==
    LET slashes == {i \in 1..Len(w) : w[i] = "/"}
    IN  IF slashes = {} THEN w ELSE SubSeq(w, SetMax(slashes) + 1, Len(w))

RECURSIVE JoinWords(_)
\* " ".join(words)
JoinWords(ws) ==
    IF Len(ws) = 0 THEN <<>>
    ELSE IF Len(ws) = 1 THEN ws[1]
    ELSE ws[1] \o <<" ">> \o JoinWords(Tail(ws))

(***************************************************************************)
(* The words the task texts are built from                                 *)
(***************************************************************************)
W_Check == <<"C","h","e","c","k">>
W_out == <<"o","u","t">>
W_his == <<"h","i","s">>
W_GitHub == <<"G","i","t","H","u","b">>
W_profile == <<"p","r","o","f","i","l","e">>
W_at == <<"a","t">>
W_johndoe == <<"j","o","h","n","d","o","e">>
W_johndoe_paren == <<"(","j","o","h","n","d","o","e",")",",">>
W_github_url == <<"h","t","t","p","s",":","/","/","g","i","t","h","u","b",".","c","o","m","/","j","o","h","n","d","o","e">>
W_github_url_slash == <<"h","t","t","p","s",":","/","/","g","i","t","h","u","b",".","c","o","m","/","j","o","h","n","d","o","e","/">>
W_linkedin_url == <<"h","t","t","p","s",":","/","/","w","w","w",".","l","i","n","k","e","d","i","n",".","c","o","m","/","i","n","/","j","a","n","e">>
W_LinkedIn_url_comma == <<"h","t","t","p","s",":","/","/","w","w","w",".","L","i","n","k","e","d","I","n",".","c","o","m","/","i","n","/","J","a","n","e",",">>
W_paper == <<"p","a","p","e","r">>
W_arXiv == <<"a","r","X","i","v">>
W_news == <<"n","e","w","s">>
W_academic == <<"a","c","a","d","e","m","i","c">>
W_about == <<"a","b","o","u","t">>
W_transformers == <<"t","r","a","n","s","f","o","r","m","e","r","s">>
W_by == <<"b","y">>
W_Jane == <<"J","a","n","e">>
W_Smith == <<"S","m","i","t","h">>
W_parens == <<"(",")">>

Vocabulary ==
    {W_GitHub, W_profile, W_johndoe, W_johndoe_paren, W_github_url,
     W_github_url_slash, W_linkedin_url, W_LinkedIn_url_comma, W_paper,
     W_arXiv, W_news, W_parens}

\* the longest task text built from the vocabulary, in words
MaxWords == 2

\* "Check out his GitHub profile at johndoe"
ScenarioA_Text ==
    JoinWords(<<W_Check, W_out, W_his, W_GitHub, W_profile, W_at, W_johndoe>>)

\* "academic paper about transformers by Jane Smith"
ScenarioB_Text ==
    JoinWords(<<W_academic, W_paper, W_about, W_transformers, W_by, W_Jane, W_Smith>>)

Goal_JaneSmith == JoinWords(<<W_Jane, W_Smith>>)
Goal_Doe == <<"D","o","e">>
Goals == {Goal_JaneSmith, Goal_Doe}

RouteTexts ==
    {JoinWords(ws) : ws \in UNION {[1..len -> Vocabulary] : len \in 1..MaxWords}}
        \cup {ScenarioA_Text, ScenarioB_Text}

(***************************************************************************)
(* The router: researcher.py, execute_research_node, lines 57-95           *)
(***************************************************************************)
LINKEDIN_PATTERN == <<"l","i","n","k","e","d","i","n",".","c","o","m","/","i","n","/">>
GITHUB_KEYWORD == <<"g","i","t","h","u","b">>
AcademicTerms ==
    {<<"r","e","s","e","a","r","c","h">>,
     <<"p","a","p","e","r">>,
     <<"p","u","b","l","i","c","a","t","i","o","n">>,
     <<"a","c","a","d","e","m","i","c">>,
     <<"a","r","x","i","v">>}
\* the characters of word.strip(",.()\"'")
StripChars == {",", ".", "(", ")", "\"", "'"}

ToolNames == {"scrape_linkedin", "scrape_github", "search_arxiv", "search_tavily"}

\* lines 66-70: the first word that holds the pattern, as written (no lower())
LinkedInInput(text) ==
    LET words == Split(text)
        hits  == {i \in 1..Len(words) : Contains(LINKEDIN_PATTERN, words[i])}
    IN  IF hits = {} THEN text ELSE Strip(words[SetMin(hits)], StripChars)

\* lines 76-85: the word after the first word that holds the keyword
GitHubInput(text) ==
    LET words == Split(text)
        hits  == {i \in 1..Len(words) :
                     Contains(GITHUB_KEYWORD, Lower(words[i])) /\ i < Len(words)}
    IN  IF hits = {} THEN text
        ELSE LET potential_username == Strip(words[SetMin(hits) + 1], StripChars)
             IN  IF Contains(<<"/">>, potential_username)
                 THEN LastSegment(potential_username)
                 ELSE potential_username

SearchInput_NoGoal(goal, text) == text

\* lines 90 and 95: f"{state['target_name']} {task_description}"
SearchInput(goal, text) == goal \o <<" ">> \o text

RouteTask_GitHubFirst(goal, text) ==
    LET low == Lower(text)
    IN  IF Contains(GITHUB_KEYWORD, low)
        THEN [tool |-> "scrape_github", input |-> GitHubInput(text)]
        ELSE IF Contains(LINKEDIN_PATTERN, low)
        THEN [tool |-> "scrape_linkedin", input |-> LinkedInInput(text)]
        ELSE IF \E term \in AcademicTerms : Contains(term, low)
        THEN [tool |-> "search_arxiv", input |-> SearchInput(goal, text)]
        ELSE [tool |-> "search_tavily", input |-> SearchInput(goal, text)]

\* lines 59-95: matched_tool_name and tool_input of one plan entry
RouteTask(goal, text) ==
    LET low == Lower(text)
    IN  IF Contains(LINKEDIN_PATTERN, low)
        THEN [tool |-> "scrape_linkedin", input |-> LinkedInInput(text)]
        ELSE IF Contains(GITHUB_KEYWORD, low)
        THEN [tool |-> "scrape_github", input |-> GitHubInput(text)]
        ELSE IF \E term \in AcademicTerms : Contains(term, low)
        THEN [tool |-> "search_arxiv", input |-> SearchInput(goal, text)]
        ELSE [tool |-> "search_tavily", input |-> SearchInput(goal, text)]

(***************************************************************************)
(* Python values.  A dict is a record whose DOMAIN is the set of its keys; *)
(* None in the place of a dict or of a list of results is NonePayload; a   *)
(* scalar that may be None is a string or NoneVal.                         *)
(***************************************************************************)
NonePayload == [none |-> TRUE]

IsDict(d) == "none" \notin DOMAIN d
\* "d and isinstance(d, dict)": a dict with at least one key
DictTruthy(d) == IsDict(d) /\ DOMAIN d # {}
\* d.get(key, default)
Get(d, key, default) == IF key \in DOMAIN d THEN d[key] ELSE default
\* truth value of an Optional[str]
TruthyStr(v) == v \notin {NoneVal, ""}

(***************************************************************************)
(* Scraper payloads: scraper/linkedin_scraper.py and github_scraper.py     *)
(***************************************************************************)
\* the longest list of experiences / of repositories in a payload
MaxExp == 2
MaxRepos == 2

Experiences ==
    {[title |-> "Engineer", company |-> "Acme", date_range |-> "2020-2022"],
     [title |-> "Manager", company |-> "Initech", date_range |-> ""]}

Repositories ==
    {[name |-> "repoA", description |-> "first", stars |-> 5, forks |-> 1,
      language |-> "Python", url |-> "https://github.com/johndoe/repoA", topics |-> <<>>],
     [name |-> "repoB", description |-> NoneVal, stars |-> 0, forks |-> 0,
      language |-> "Python", url |-> "https://github.com/johndoe/repoB", topics |-> <<>>],
     [name |-> "repoA", description |-> "fork", stars |-> 1, forks |-> 0,
      language |-> NoneVal, url |-> "https://github.com/other/repoA", topics |-> <<>>]}

SeqsUpTo(S, max) == UNION {[1..len -> S] : len \in 0..max}

\* a list of skills whose entries name the skill and nothing else.  The
\* scraper does not extract skills yet (common.py lines 60-61), so the shape of
\* the entries is the caller's.
LinkedInSkills_Plain == <<[name |-> "Go"]>>

LinkedInSkills == <<[name |-> "Python", category |-> "Listed", source |-> "linkedin"]>>

\* LinkedInScraper.scrape_profile, lines 311-432, on success
LinkedInOk ==
    {[success |-> TRUE, profile_url |-> "https://www.linkedin.com/in/jane",
      name |-> nm, headline |-> h, experiences |-> ex, posts |-> <<>>,
      error |-> NoneVal] :
        nm \in {NoneVal, "Jane L"}, h \in {NoneVal, "", "Engineer at Acme"},
        ex \in SeqsUpTo(Experiences, MaxExp)}
    \cup
    {[success |-> TRUE, profile_url |-> "https://www.linkedin.com/in/jane",
      name |-> "Jane L", headline |-> "Engineer at Acme", experiences |-> ex,
      posts |-> <<>>, error |-> NoneVal, skills |-> sks] :
        ex \in SeqsUpTo(Experiences, MaxExp),
        sks \in {LinkedInSkills, LinkedInSkills_Plain}}

\* LinkedInScraper.scrape, lines 671-686, and scrape_profile on failure
LinkedInFail ==
    {[success |-> FALSE, error |-> "LinkedIn credentials not provided"],
     [success |-> FALSE, profile_url |-> "https://www.linkedin.com/in/jane",
      name |-> "Jane L", headline |-> "Engineer at Acme",
      experiences |-> <<>>, posts |-> <<>>, error |-> "Timeout 30000ms exceeded"]}

\* a payload whose list of experiences holds an entry that is not a dict
LinkedInMalformed ==
    {[success |-> TRUE, profile_url |-> "https://www.linkedin.com/in/jane",
      name |-> "Jane L", headline |-> "Engineer at Acme", experiences |-> ex,
      posts |-> <<>>, error |-> NoneVal] :
        ex \in {<<NonePayload>>} \cup {<<e, NonePayload>> : e \in Experiences}
                 \cup {<<NonePayload, e>> : e \in Experiences}}

LinkedInPayloads == LinkedInOk \cup LinkedInFail \cup LinkedInMalformed \cup {NonePayload}

\* GitHubScraper.scrape_profile, lines 138-208, on success
GitHubOk ==
    {[success |-> TRUE, profile_url |-> "https://github.com/johndoe",
      username |-> "johndoe", name |-> nm, bio |-> b, repositories |-> rs,
      error |-> NoneVal] :
        nm \in {NoneVal, "John G"}, b \in {NoneVal, "Developer"},
        rs \in SeqsUpTo(Repositories, MaxRepos)}

\* GitHubScraper.scrape, lines 223-230, and scrape_profile on failure
GitHubFail ==
    {[success |-> FALSE, error |-> "Scraper initialization failed: no token"],
     [success |-> FALSE, profile_url |-> "https://github.com/johndoe",
      username |-> "johndoe", name |-> "John G", bio |-> "Developer",
      repositories |-> <<>>, error |-> "API rate limit exceeded"]}

\* a payload whose list of repositories holds an entry that is not a dict
GitHubMalformed ==
    {[success |-> TRUE, profile_url |-> "https://github.com/johndoe",
      username |-> "johndoe", name |-> "John G", bio |-> "Developer",
      repositories |-> rs, error |-> NoneVal] :
        rs \in {<<NonePayload>>} \cup {<<r, NonePayload>> : r \in Repositories}
                 \cup {<<NonePayload, r>> : r \in Repositories}}

GitHubPayloads == GitHubOk \cup GitHubFail \cup GitHubMalformed \cup {NonePayload}

(***************************************************************************)
(* Fusion: utils/common.py, structure_profile_data                         *)
(***************************************************************************)
SourceOk_AnyDict(data) == DictTruthy(data)

\* lines 37-38 and 68-69: the source is a non-empty dict that reports success
SourceOk(data) == DictTruthy(data) /\ Get(data, "success", FALSE) = TRUE

\* lines 43-44, starting from the initial name None
LinkedInName(linkedin_data) ==
    IF TruthyStr(Get(linkedin_data, "name", NoneVal))
    THEN linkedin_data["name"] ELSE NoneVal

\* line 47
LinkedInHeadline(linkedin_data) == Get(linkedin_data, "headline", NoneVal)

\* the first entry of the list on which entry.get(...) raises AttributeError,
\* 0 when there is none
FirstNonDict(list) ==
    LET bad == {i \in 1..Len(list) : ~IsDict(list[i])}
    IN  IF bad = {} THEN 0 ELSE SetMin(bad)

\* the entries a loop over the list handles before it raises
Handled(list) ==
    IF FirstNonDict(list) = 0 THEN Len(list) ELSE FirstNonDict(list) - 1

\* lines 51-58 raise
LinkedInRaises(linkedin_data) ==
    FirstNonDict(Get(linkedin_data, "experiences", <<>>)) # 0

\* lines 83-93 raise
GitHubRaises(github_data) ==
    FirstNonDict(Get(github_data, "repositories", <<>>)) # 0

\* lines 50-58: the entries appended, up to the entry that raises
WorkHistory(linkedin_data) ==
    LET exps == Get(linkedin_data, "experiences", <<>>)
    IN  [i \in 1..Handled(exps) |->
            [title      |-> Get(exps[i], "title", "Unknown Position"),
             company    |-> Get(exps[i], "company", "Unknown Company"),
             date_range |-> Get(exps[i], "date_range", ""),
             source     |-> "linkedin"]]

\* lines 62-63
LinkedInSkillList(linkedin_data) == Get(linkedin_data, "skills", <<>>)

GitHubName_Overwrite(name, github_data) ==
    IF TruthyStr(Get(github_data, "name", NoneVal))
    THEN github_data["name"] ELSE name

\* lines 74-75
GitHubName(name, github_data) ==
    IF ~TruthyStr(name) /\ TruthyStr(Get(github_data, "name", NoneVal))
    THEN github_data["name"] ELSE name

\* lines 78-79
GitHubHeadline(headline, github_data) ==
    IF ~TruthyStr(headline) /\ TruthyStr(Get(github_data, "bio", NoneVal))
    THEN github_data["bio"] ELSE headline

\* lines 82-93: the entries appended, up to the entry that raises
Projects(github_data) ==
    LET repos == Get(github_data, "repositories", <<>>)
    IN  [i \in 1..Handled(repos) |->
            [name        |-> Get(repos[i], "name", "Unnamed Repository"),
             description |-> Get(repos[i], "description", ""),
             stars       |-> Get(repos[i], "stars", 0),
             language    |-> Get(repos[i], "language", "Unknown"),
             url         |-> Get(repos[i], "url", ""),
             topics      |-> Get(repos[i], "topics", <<>>),
             source      |-> "github"]]

\* lines 96-99: the set of languages; it is listed here in the order of first
\* occurrence (the iteration order of a Python set is fixed for a given set)
Languages(github_data) ==
    LET repos == Get(github_data, "repositories", <<>>)
        lang(i) == Get(repos[i], "language", NoneVal)
        first == {i \in 1..Len(repos) :
                    /\ lang(i) \notin {NoneVal, "", "None", "Unknown"}
                    /\ \A j \in 1..(i - 1) : lang(j) # lang(i)}
        RECURSIVE Listed(_)
        Listed(S) == IF S = {} THEN <<>>
                     ELSE <<lang(SetMin(S))>> \o Listed(S \ {SetMin(S)})
    IN  Listed(first)

\* lines 102-108
LanguageSkills(github_data) ==
    LET langs == Languages(github_data)
    IN  [i \in 1..Len(langs) |->
            [name |-> langs[i], category |-> "Programming Language", source |-> "github"]]

\* lines 115-122
ErrorMessages(linkedin_data, github_data) ==
    (IF DictTruthy(linkedin_data) /\ TruthyStr(Get(linkedin_data, "error", NoneVal))
     THEN <<[src |-> "LinkedIn error", msg |-> linkedin_data["error"]]>> ELSE <<>>)
    \o
    (IF DictTruthy(github_data) /\ TruthyStr(Get(github_data, "error", NoneVal))
     THEN <<[src |-> "GitHub error", msg |-> github_data["error"]]>> ELSE <<>>)

\* lines 126-129: the message of the exception
ExceptionMessage == [src |-> "exception", msg |-> "'NoneType' object has no attribute 'get'"]

\* lines 22-131; metadata.last_updated, the time of the call, is left out.
\* An exception leaves the try block: what was set before it stays, what
\* comes after it is not run, and lines 128-129 mark the failure.
structure_profile_data(linkedin_data, github_data) ==
    LET li == SourceOk(linkedin_data)
        liRaised == li /\ LinkedInRaises(linkedin_data)
        gh == ~liRaised /\ SourceOk(github_data)
        ghRaised == gh /\ GitHubRaises(github_data)
        name1     == IF li THEN LinkedInName(linkedin_data) ELSE NoneVal
        headline1 == IF li THEN LinkedInHeadline(linkedin_data) ELSE NoneVal
        work      == IF li THEN WorkHistory(linkedin_data) ELSE <<>>
        skills1   == IF li /\ ~liRaised THEN LinkedInSkillList(linkedin_data) ELSE <<>>
        name2     == IF gh THEN GitHubName(name1, github_data) ELSE name1
        headline2 == IF gh THEN GitHubHeadline(headline1, github_data) ELSE headline1
        projects  == IF gh THEN Projects(github_data) ELSE <<>>
        skills2   == IF gh /\ ~ghRaised
                     THEN skills1 \o LanguageSkills(github_data) ELSE skills1
        sources   == (IF li THEN <<"linkedin">> ELSE <<>>)
                        \o (IF gh THEN <<"github">> ELSE <<>>)
        profile   == [name |-> name2, headline |-> headline2, work_history |-> work,
                      projects |-> projects, skills |-> skills2]
    IN  IF liRaised \/ ghRaised
        THEN profile @@ [metadata |-> [sources |-> sources, success |-> FALSE,
                                       errors |-> <<ExceptionMessage>>]]
        ELSE IF Len(sources) > 0
        THEN profile @@ [metadata |-> [sources |-> sources, success |-> TRUE]]
        ELSE profile @@ [metadata |-> [sources |-> sources, success |-> FALSE,
                                       errors |-> ErrorMessages(linkedin_data, github_data)]]

NoRoute == [tool |-> "none", input |-> <<>>]

(***************************************************************************)
(* Personas and tools: utils/config.py and researcher.py lines 51-52       *)
(***************************************************************************)
PERSONAS ==
    [General   |-> {"linkedin", "github", "tavily", "arxiv"},
     Recruiter |-> {"linkedin", "github", "stackoverflow", "tavily"},
     Investor  |-> {"tavily", "linkedin", "newsapi"},
     Founder   |-> {"linkedin", "github", "tavily", "newsapi", "arxiv"}]

\* retriever.get_available_tools: one tool per data source that has one
get_available_tools(data_sources) ==
    {"scrape_linkedin" : s \in data_sources \cap {"linkedin"}}
        \cup {"scrape_github" : s \in data_sources \cap {"github"}}
        \cup {"search_tavily" : s \in data_sources \cap {"tavily"}}
        \cup {"search_arxiv" : s \in data_sources \cap {"arxiv"}}

\* researcher.py lines 51-52: the names of the tools of the persona
ToolMap == get_available_tools(PERSONAS[persona])

(***************************************************************************)
(* Plans: the task lists generate_plan_node stores in the state            *)
(***************************************************************************)
\* the longest plan, in tasks
MaxPlan == 3

PlanTexts ==
    {W_linkedin_url, JoinWords(<<W_GitHub, W_johndoe>>), W_paper, W_news}

Plans == UNION {[1..len -> PlanTexts] : len \in 1..MaxPlan}

(***************************************************************************)
(* What a provider call can give back                                      *)
(***************************************************************************)
\* a langchain Document of the web search, of the academic search, and a plain
\* dict (as MultiSourceRetriever._search_arxiv formats its results), which
\* has no attribute metadata
Doc_Web   == [page_content |-> "web page",
              metadata |-> [source |-> "https://example.org/jane", title |-> "Jane"]]
Doc_Arxiv == [page_content |-> "abstract",
              metadata |-> ("Entry ID" :> "http://arxiv.org/abs/2101.00001" @@ "Title" :> "T")]
Doc_Plain == [title |-> "T", url |-> "http://arxiv.org/abs/2101.00001", summary |-> "abstract"]

Raise(msg) == [raise |-> msg]
Return(v)  == [ret |-> v]
Raised(outcome) == "raise" \in DOMAIN outcome

GitHub_Full ==
    [success |-> TRUE, profile_url |-> "https://github.com/johndoe",
     username |-> "johndoe", name |-> "John G", bio |-> "Developer",
     repositories |-> <<CHOOSE r \in Repositories : r.name = "repoA" /\ r.stars = 5>>,
     error |-> NoneVal]
GitHub_Bare ==
    [success |-> TRUE, profile_url |-> "https://github.com/johndoe",
     username |-> "johndoe", name |-> NoneVal, bio |-> NoneVal,
     repositories |-> <<>>, error |-> NoneVal]
GitHub_Failed == [success |-> FALSE, error |-> "Scraper initialization failed: no token"]
\* scrape_profile, lines 148-206: an exception after the profile and a
\* repository were read leaves them in the result, with success = False
GitHub_Partial ==
    [success |-> FALSE, profile_url |-> "https://github.com/johndoe",
     username |-> "johndoe", name |-> "John P", bio |-> "Partial",
     repositories |-> <<CHOOSE r \in Repositories : r.name = "repoB">>,
     error |-> "'NoneType' object has no attribute 'get'"]

\* a malformed response: the list of repositories holds an entry that is not
\* a dict
GitHub_BadRepo ==
    [success |-> TRUE, profile_url |-> "https://github.com/johndoe",
     username |-> "johndoe", name |-> "John M", bio |-> "Malformed",
     repositories |-> <<NonePayload>>, error |-> NoneVal]

LinkedIn_Full ==
    [success |-> TRUE, profile_url |-> "https://www.linkedin.com/in/jane",
     name |-> "Jane L", headline |-> "Engineer at Acme",
     experiences |-> <<CHOOSE e \in Experiences : e.company = "Acme">>,
     posts |-> <<>>, error |-> NoneVal]
LinkedIn_Bare ==
    [success |-> TRUE, profile_url |-> "https://www.linkedin.com/in/jane",
     name |-> NoneVal, headline |-> NoneVal, experiences |-> <<>>,
     posts |-> <<>>, error |-> NoneVal]
LinkedIn_Failed == [success |-> FALSE, error |-> "LinkedIn credentials not provided"]
\* LinkedInScraper.scrape_profile: an exception after the top card and an
\* experience were read
LinkedIn_Partial ==
    [success |-> FALSE, profile_url |-> "https://www.linkedin.com/in/jane",
     name |-> "Jane P", headline |-> "Partial",
     experiences |-> <<CHOOSE x \in Experiences : x.company = "Initech">>,
     posts |-> <<>>, error |-> "Timeout 30000ms exceeded"]

Outcomes(tool_name) ==
    CASE tool_name = "search_tavily" ->
            {Raise("tavily: HTTP 500"),
             Return([docs |-> <<>>]),
             Return([docs |-> <<Doc_Web>>]),
             Return([docs |-> <<Doc_Web, Doc_Arxiv>>])}
      [] tool_name = "search_arxiv" ->
            {Raise("arxiv: connection reset"),
             Return([docs |-> <<>>]),
             Return([docs |-> <<Doc_Arxiv>>]),
             Return([docs |-> <<Doc_Plain>>]),
             Return([docs |-> <<Doc_Arxiv, Doc_Plain>>])}
      [] tool_name = "scrape_github" ->
            {Raise("github: tool error"),
             Return(GitHub_Full), Return(GitHub_Bare), Return(GitHub_Failed),
             Return(GitHub_Partial), Return(GitHub_BadRepo)}
      [] tool_name = "scrape_linkedin" ->
            {Raise("linkedin: tool error"),
             Return(LinkedIn_Full), Return(LinkedIn_Bare), Return(LinkedIn_Failed),
             Return(LinkedIn_Partial)}

(***************************************************************************)
(* The executor: researcher.py, execute_research_node, lines 97-171        *)
(***************************************************************************)
\* f"[{len(sources_log)+1}] {ref}"
SourceEntry(log, ref) == [num |-> Len(log) + 1, ref |-> ref]

RECURSIVE LogDocs(_, _, _, _)
\* lines 126-128 and 130-132: one source per document, until a document
\* without metadata raises AttributeError
LogDocs(docs, i, key, log) ==
    IF i > Len(docs) THEN [log |-> log, raised |-> FALSE]
    ELSE IF "metadata" \notin DOMAIN docs[i] THEN [log |-> log, raised |-> TRUE]
    ELSE LogDocs(docs, i + 1, key,
                 Append(log, SourceEntry(log, Get(docs[i].metadata, key, "Unknown"))))

OnTaskOk_Prepend(res, tool_name, result) ==
    <<[tool |-> tool_name, result |-> result]>> \o res

\* line 144
OnTaskOk(res, tool_name, result) ==
    Append(res, [tool |-> tool_name, result |-> result])

\* lines 145-147
OnTaskError(res, tool_name, msg) ==
    Append(res, [tool |-> tool_name, error |-> msg])

\* lines 119-147: the body of the try statement and its handler, for the
\* outcome of the awaited call
ProcessResult(tool_name, outcome, res, log) ==
    IF Raised(outcome)
    THEN [results |-> OnTaskError(res, tool_name, outcome.raise), sources_log |-> log]
    ELSE
    LET result == outcome.ret
    IN  IF tool_name \in {"search_tavily", "search_arxiv"}
        THEN LET key == IF tool_name = "search_tavily" THEN "source" ELSE "Entry ID"
                 r   == LogDocs(result.docs, 1, key, log)
             IN  IF r.raised
                 THEN [results |-> OnTaskError(res, tool_name,
                                      "'dict' object has no attribute 'metadata'"),
                       sources_log |-> r.log]
                 ELSE [results |-> OnTaskOk(res, tool_name, result),
                       sources_log |-> r.log]
        ELSE IF ~IsDict(result)
        THEN [results |-> OnTaskError(res, tool_name,
                              "argument of type 'NoneType' is not iterable"),
              sources_log |-> log]
        ELSE LET key  == IF tool_name = "scrape_linkedin" THEN "url" ELSE "html_url"
                 dflt == IF tool_name = "scrape_linkedin"
                         THEN "LinkedIn profile" ELSE "GitHub profile"
             IN  [results |-> OnTaskOk(res, tool_name, result),
                  sources_log |-> Append(log, SourceEntry(log, Get(result, key, dflt)))]

AwaitNext_Propagate(raised, i, ntasks) ==
    IF raised THEN "raised" ELSE IF i < ntasks THEN "await" ELSE "structure"

\* lines 118-147: the loop goes on to the next task after either branch of
\* the try statement, and to line 151 after the last task
AwaitNext(raised, i, ntasks) == IF i < ntasks THEN "await" ELSE "structure"

\* lines 102-110: the provider calls started when the task is created.
\* asyncio.create_task starts the academic search in a thread; tool.ainvoke
\* only builds a coroutine, which has not started.
CallsOnCreate(tool_name) == IF tool_name = "search_arxiv" THEN 1 ELSE 0

CallsOnAwait_Rerun(st) == 1

\* line 120: awaiting a coroutine that has not started runs it, once;
\* awaiting a task that is running or has ended starts nothing
CallsOnAwait(st) == IF st = "created" THEN 1 ELSE 0

\* lines 155-159: the last result of the tool that has no "error" key
LastResult(res, tool_name) ==
    LET hits == {i \in 1..Len(res) :
                    res[i].tool = tool_name /\ "error" \notin DOMAIN res[i]}
    IN  IF hits = {} THEN NonePayload ELSE res[SetMax(hits)].result

\* lines 151-169: the entry appended for the structured profile, if any
StructuringEntries(res) ==
    LET github_data   == LastResult(res, "scrape_github")
        linkedin_data == LastResult(res, "scrape_linkedin")
    IN  IF DictTruthy(github_data) \/ DictTruthy(linkedin_data)
        THEN <<[tool |-> "data_structuring",
                result |-> structure_profile_data(linkedin_data, github_data)]>>
        ELSE <<>>

(***************************************************************************)
(* The cost tracker: retriever.py, CostTrackingCallback and the calls of   *)
(* MultiSourceRetriever that record on it                                  *)
(***************************************************************************)
\* the number of threads that record a call on the same tracker
MaxThreads == 3

\* TAVILY_COST_PER_SEARCH = 0.01; all costs are in tenths of a millionth of a
\* dollar, the unit in which every price of OPENAI_COSTS is a whole number
TAVILY_COST_PER_SEARCH == 100000

\* what a thread runs: _search_web, _search_arxiv, or the retriever callback
\* on_retriever_start of a Tavily retriever
CallKinds == {"_search_web", "_search_arxiv", "on_retriever_start"}

\* the counter "self.<counter> += 1" of the call works on
CounterOf(kind) == IF kind = "_search_arxiv" THEN "arxiv_searches" ELSE "tavily_searches"

\* get_cost_summary, lines 138-153, with no LLM usage recorded:
\* total_cost = tavily_cost + openai_cost, the academic searches being free
TotalCost(tavily_count) == tavily_count * TAVILY_COST_PER_SEARCH

(***************************************************************************)
(* The LLM usage of the cost tracker: retriever.py lines 40-53 and 91-184  *)
(***************************************************************************)
\* the calls one session makes
MaxSessionCalls == 3

Model_4o_mini == <<"g","p","t","-","4","o","-","m","i","n","i">>
Model_4o == <<"g","p","t","-","4","o">>
Model_35_turbo == <<"g","p","t","-","3",".","5","-","t","u","r","b","o">>
\* the keys of OPENAI_COSTS, in the order of the dict
KnownModels == <<Model_4o_mini, Model_4o, Model_35_turbo>>

\* lines 40-53, per token
OPENAI_COSTS ==
    (Model_4o_mini :> [input |-> 50, output |-> 150])
        @@ (Model_4o :> [input |-> 100, output |-> 300])
        @@ (Model_35_turbo :> [input |-> 15, output |-> 20])

\* serialized.get("name", ""), line 93: a model name with a version, a model
\* name, the name of the wrapper class, or nothing.  None and "" are both the
\* empty sequence: lines 118 and 140 treat them alike.
ModelNames ==
    {<<"g","p","t","-","4","o","-","2","0","2","4","-","0","8","-","0","6">>, Model_4o_mini, <<"C","h","a","t","O","p","e","n","A","I">>, <<>>}

\* llm_output["token_usage"], lines 107-110; NonePayload when the response
\* carries no usage
TokenUsages ==
    {[prompt_tokens |-> 1, completion_tokens |-> 0, total_tokens |-> 1],
     [prompt_tokens |-> 2, completion_tokens |-> 1, total_tokens |-> 3],
     NonePayload}

\* lines 118-125 and 140-147: the prices used for the model name
ModelCosts(name) ==
    LET model == IF name = <<>> THEN Model_4o_mini ELSE name
        hits  == {i \in 1..Len(KnownModels) : Contains(KnownModels[i], model)}
        base  == IF hits = {} THEN model ELSE KnownModels[SetMin(hits)]
    IN  IF base \in DOMAIN OPENAI_COSTS THEN OPENAI_COSTS[base]
        ELSE OPENAI_COSTS[Model_35_turbo]

\* lines 63-70
NewUsage == [total_tokens |-> 0, prompt_tokens |-> 0, completion_tokens |-> 0,
             model |-> <<>>]

\* line 93
on_llm_start(usage, name) == [usage EXCEPT !.model = name]

\* lines 104-115: the counters after a response
on_llm_end(usage, tokens) ==
    IF ~IsDict(tokens) THEN usage
    ELSE [usage EXCEPT !.prompt_tokens = @ + tokens.prompt_tokens,
                       !.completion_tokens = @ + tokens.completion_tokens,
                       !.total_tokens = @ + tokens.total_tokens]

\* lines 117-134: the cost logged for the call
LlmCallCost(usage, tokens) ==
    tokens.prompt_tokens * ModelCosts(usage.model).input
        + tokens.completion_tokens * ModelCosts(usage.model).output

\* lines 138-153: the costs of the summary, before they are rounded to six
\* decimals for the returned dict (lines 168, 181, 183)
get_cost_summary(tavily_count, usage) ==
    LET tavily_cost == tavily_count * TAVILY_COST_PER_SEARCH
        openai_cost == usage.prompt_tokens * ModelCosts(usage.model).input
                         + usage.completion_tokens * ModelCosts(usage.model).output
    IN  [tavily_cost |-> tavily_cost, openai_cost |-> openai_cost,
         total_cost |-> tavily_cost + openai_cost]

\* lines 246-250 and 275-279: the line written to the cost log
SearchLogLine(kind) ==
    IF kind = "_search_web"
    THEN [what |-> "Tavily search API call", cost |-> TAVILY_COST_PER_SEARCH]
    ELSE [what |-> "ArXiv search API call", cost |-> 0]

AfterRequest_Rollback(outcome, count) ==
    IF outcome = "failed" THEN count - 1 ELSE count

\* lines 252-269 and 281-298: the request and the formatting of its results
\* leave the counter alone, and so does the exception handler
AfterRequest(outcome, count) == count

(***************************************************************************)
(* The planner: agents/planning_agent.py, generate_research_plan           *)
(***************************************************************************)
\* the longest text of the collaborator, in lines
MaxLines == 2

\* the lines the collaborator's text is made of: an empty line, a line of
\* whitespace, a task, and a task with whitespace around it
Line_Empty == <<>>
Line_Blank == <<" ","\t">>
Line_Task == <<"G","i","t","H","u","b"," ","j","o","h","n","d","o","e">>
Line_Padded == <<" "," ","n","e","w","s"," ","\r">>
PlanLines == {Line_Empty, Line_Blank, Line_Task, Line_Padded}

RECURSIVE JoinLines(_)
\* "\n".join(lines)
JoinLines(ls) ==
    IF Len(ls) = 0 THEN <<>>
    ELSE IF Len(ls) = 1 THEN ls[1]
    ELSE ls[1] \o <<"\n">> \o JoinLines(Tail(ls))

\* response.content
Contents == {JoinLines(ls) : ls \in UNION {[1..len -> PlanLines] : len \in 1..MaxLines}}

\* line 38: chain.ainvoke returns a message or raises
LLMResponses == {Raise("openai: connection error")} \cup {Return(c) : c \in Contents}

RECURSIVE SplitOn(_, _, _, _, _)
SplitOn(s, sep, i, cur, acc) ==
    IF i > Len(s) THEN Append(acc, cur)
    ELSE IF s[i] = sep THEN SplitOn(s, sep, i + 1, <<>>, Append(acc, cur))
    ELSE SplitOn(s, sep, i + 1, Append(cur, s[i]), acc)

\* content.split('\n'): the pieces between the newlines, empty ones included
SplitLines(content) == SplitOn(content, "\n", 1, <<>>, <<>>)

Queries_KeepBlank(content) ==
    LET lines == SplitLines(content)
    IN  [i \in 1..Len(lines) |-> Strip(lines[i], Whitespace)]

\* line 46: [q.strip() for q in response.content.split('\n') if q.strip()]
Queries(content) ==
    LET lines    == SplitLines(content)
        stripped == [i \in 1..Len(lines) |-> Strip(lines[i], Whitespace)]
    IN  SelectSeq(stripped, LAMBDA q : q # <<>>)

\* lines 51-56: the plan used when the text holds no query
EmptyFallback(goal) ==
    <<goal \o <<" ","L","i","n","k","e","d","I","n"," ","p","r","o","f","i","l","e">>,
      goal \o <<" ","G","i","t","H","u","b"," ","p","r","o","f","i","l","e">>,
      goal \o <<" ","r","e","c","e","n","t"," ","w","o","r","k"," ","h","i","s","t","o","r","y">>,
      goal \o <<" ","n","o","t","a","b","l","e"," ","p","r","o","j","e","c","t","s"," ","o","r"," ","c","o","n","t","r","i","b","u","t","i","o","n","s">>>>

\* lines 64-68: the plan returned by the exception handler
ExceptionFallback(goal) ==
    <<<<"S","e","a","r","c","h"," ","f","o","r"," ">> \o goal \o <<" ","o","n","l","i","n","e"," ","p","r","o","f","i","l","e">>,
      goal \o <<" ","p","r","o","f","e","s","s","i","o","n","a","l"," ","b","a","c","k","g","r","o","u","n","d">>,
      goal \o <<" ","c","a","r","e","e","r"," ","h","i","g","h","l","i","g","h","t","s">>>>

\* lines 24-68
generate_research_plan(goal, response) ==
    IF Raised(response) THEN ExceptionFallback(goal)
    ELSE LET queries == Queries(response.ret)
         IN  IF queries = <<>> THEN EmptyFallback(goal) ELSE queries

\* no call of the planner has been made
NoCall == [resp |-> NonePayload, plan |-> <<>>]

(***************************************************************************)
(* The graph of researcher.py and the entry points above it: run_research, *)
(* generate_person_report and main.run_stalker_ai                          *)
(***************************************************************************)
\* the persona names a caller passes: the keys of PERSONAS and a name that is
\* not configured
PersonaNames == DOMAIN PERSONAS \cup {"Hacker"}

\* PERSONAS.keys(), in the order of the dict (config.py lines 30-59)
PersonaKeys == <<"General", "Recruiter", "Investor", "Founder">>

\* researcher.py line 35: what the call of generate_research_plan gives the
\* node.  The planner handles the exceptions of its own try block (lines
\* 24-68); the handler of the node covers an exception raised outside of it.
PlannerOutcomes == {Return(p) : p \in Plans} \cup {Raise("planner: unexpected error")}

\* researcher.py lines 282-290: the reporting LLM answers with a text, which
\* may be empty, or the call raises
ReportLLMOutcomes ==
    {Return("Narrative about the target"), Return(""), Raise("openai: request timed out")}

NodeAfter_SkipReport(node) ==
    CASE node = "generate_plan" -> "execute_research"
      [] node = "execute_research" -> "END"
      [] node = "generate_report" -> "END"

\* lines 305-308: the entry point is generate_plan, and each node has one
\* edge, to the next node or to END
NodeAfter(node) ==
    CASE node = "generate_plan" -> "execute_research"
      [] node = "execute_research" -> "generate_report"
      [] node = "generate_report" -> "END"

\* the dict {} a node returns when it changes nothing
NoUpdate == <<>>

\* the graph writes each key of the dict a node returns into the state and
\* leaves the other fields of the state as they are
Merged(update, key, old) == IF key \in DOMAIN update THEN update[key] ELSE old

PriorError_Ignored(err) == FALSE

\* lines 44 and 176: state.get("error") is set
PriorError(err) == TruthyStr(err)

\* lines 31-39
generate_plan_node(outcome) ==
    IF Raised(outcome)
    THEN [error |-> "Planning failed: " \o outcome.raise]
    ELSE [plan |-> outcome.ret, error |-> NoneVal]

\* lines 44-47: what execute_research_node does on entry
ExecuteEntry(err, pl) ==
    IF PriorError(err) THEN [branch |-> "skip", update |-> NoUpdate]
    ELSE IF pl = <<>>
    THEN [branch |-> "no_plan", update |-> [error |-> "No research plan available."]]
    ELSE [branch |-> "run", update |-> NoUpdate]

\* lines 197-260, outside the try statement of the node: the summary reads the
\* first three repositories of a GitHub result and the first three experiences
\* of a LinkedIn result with .get, which raises AttributeError on an entry that
\* is not a dict
SummaryRaises(cd) ==
    \E i \in 1..Len(cd) :
        /\ cd[i].tool \in {"scrape_github", "scrape_linkedin"}
        /\ "error" \notin DOMAIN cd[i]
        /\ "result" \in DOMAIN cd[i]
        /\ LET key  == IF cd[i].tool = "scrape_github"
                       THEN "repositories" ELSE "experiences"
               list == Get(cd[i].result, key, <<>>)
               top  == SubSeq(list, 1, IF Len(list) < 3 THEN Len(list) ELSE 3)
           IN  FirstNonDict(top) # 0

\* lines 173-296.  The summary is a local of the node that goes into the
\* prompt and nowhere else; of it the model keeps whether building it raises.
\* llm is the number of calls of the reporting LLM the node makes.
generate_report_node(err, cd, llm_outcome) ==
    IF PriorError(err)
    THEN [update |-> NoUpdate, llm |-> 0, raised |-> NoneVal]
    ELSE IF cd = <<>>
    THEN [update |-> [error |-> "No data collected to generate report."],
          llm |-> 0, raised |-> NoneVal]
    ELSE IF SummaryRaises(cd)
    THEN [update |-> NoUpdate, llm |-> 0,
          raised |-> "'NoneType' object has no attribute 'get'"]
    ELSE IF Raised(llm_outcome)
    THEN [update |-> [error |-> "Report generation failed: " \o llm_outcome.raise],
          llm |-> 1, raised |-> NoneVal]
    ELSE [update |-> [report |-> llm_outcome.ret, error |-> NoneVal],
          llm |-> 1, raised |-> NoneVal]

\* A text is kept as the parts its f-string puts together: the heading, the
\* name of the target, the body, and the list of persona names.
\* researcher.py line 366
ErrorReportFor(name, err) ==
    [heading |-> "# Error Generating Report for", name |-> name, body |-> err,
     list |-> <<>>]
\* researcher.py line 369
NoReportFor(name) ==
    [heading |-> "# No Report Generated for", name |-> name,
     body |-> "No data could be collected or processed.", list |-> <<>>]
\* researcher.py line 371: the report itself
ReportText(content) == [heading |-> "", name |-> <<>>, body |-> content, list |-> <<>>]
\* main.py lines 47-48
InvalidPersonaText(persona_name) ==
    [heading |-> "Error: Invalid persona", name |-> <<>>, body |-> persona_name,
     list |-> PersonaKeys]
\* main.py line 68
ExceptionText(msg) ==
    [heading |-> "# Error Generating Report", name |-> <<>>, body |-> msg, list |-> <<>>]

\* researcher.py lines 335-339
run_research(rep, sources, err) == [report |-> rep, sources |-> sources, error |-> err]

\* researcher.py lines 363-371
generate_person_report(name, result) ==
    IF TruthyStr(result.error) THEN ErrorReportFor(name, result.error)
    ELSE IF ~TruthyStr(result.report) THEN NoReportFor(name)
    ELSE ReportText(result.report)

OnException_Propagate(msg) == Raise(msg)

\* main.py lines 66-68: the handler of run_stalker_ai
OnException(msg) == Return(ExceptionText(msg))

RouteIdle == rt_goal = <<>> /\ rt_text = <<>> /\ rt_out = NoRoute /\ rt_pc = "off"
FuseIdle  ==
    /\ f_linkedin = NonePayload /\ f_github = NonePayload
    /\ f_out = NonePayload /\ f_pc = "off"
CostIdle  ==
    /\ tavily_searches = 0 /\ arxiv_searches = 0
    /\ th_pc = <<>> /\ th_kind = <<>> /\ th_tmp = <<>>
ExecIdle  ==
    /\ target_name = <<>> /\ persona = NoneVal /\ plan = <<>>
    /\ error = NoneVal /\ collected_data = <<>> /\ state_sources_log = <<>>
    /\ pc = "off" /\ k = 0 /\ routed = <<>> /\ tasks = <<>> /\ task_state = <<>>
    /\ calls = <<>> /\ n = 0 /\ results = <<>> /\ sources_log = <<>>
    /\ report = NoneVal /\ entered = <<>> /\ llm_calls = 0 /\ exc = NoneVal
    /\ returned = NonePayload
PlanIdle  ==
    /\ pl_goal = <<>> /\ pl_resp = NonePayload /\ pl_plan = <<>>
    /\ pl_prev = NonePayload
SessIdle  ==
    /\ openai_usage = NonePayload /\ cost_log = <<>> /\ s_pc = "off" /\ s_calls = <<>>
    /\ trackers = <<>> /\ cost_tracker = 0 /\ sr_costs = NonePayload

InitRoute ==
    /\ rt_goal \in Goals
    /\ rt_text \in RouteTexts
    /\ rt_out = NoRoute
    /\ rt_pc = "input"
    /\ FuseIdle /\ CostIdle /\ ExecIdle /\ PlanIdle /\ SessIdle

\* one evaluation of the rule table on one task text
Route ==
    /\ rt_pc = "input"
    /\ rt_out' = RouteTask(rt_goal, rt_text)
    /\ rt_pc' = "routed"
    /\ UNCHANGED <<rt_goal, rt_text, fuseVars, costVars, execVars, planVars, sessVars>>

NextRoute == Route

SpecRoute == InitRoute /\ [][NextRoute]_vars

(***************************************************************************)
(* structure_profile_data applied to one pair of payloads                  *)
(***************************************************************************)
InitFuse ==
    /\ f_linkedin \in LinkedInPayloads
    /\ f_github \in GitHubPayloads
    /\ f_out = NonePayload
    /\ f_pc = "input"
    /\ RouteIdle /\ CostIdle /\ ExecIdle /\ PlanIdle /\ SessIdle

ApplyStructure ==
    /\ f_pc = "input"
    /\ f_out' = structure_profile_data(f_linkedin, f_github)
    /\ f_pc' = "done"
    /\ UNCHANGED <<f_linkedin, f_github, routeVars, costVars, execVars, planVars, sessVars>>

NextFuse == ApplyStructure

SpecFuse == InitFuse /\ [][NextFuse]_vars

(***************************************************************************)
(* The research run: main.run_stalker_ai, generate_person_report,          *)
(* run_research and the three nodes of the graph                           *)
(***************************************************************************)
\* the call run_stalker_ai(name, persona_name), and the initial state of the
\* graph that run_research builds (lines 320-328)
Init ==
    /\ target_name \in {Goal_Doe}
    /\ persona \in PersonaNames
    /\ plan = <<>>
    /\ error = NoneVal
    /\ collected_data = <<>>
    /\ state_sources_log = <<>>
    /\ report = NoneVal
    /\ pc = "run_stalker_ai"
    /\ k = 0 /\ n = 0
    /\ routed = <<>> /\ tasks = <<>> /\ task_state = <<>> /\ calls = <<>>
    /\ results = <<>> /\ sources_log = <<>>
    /\ entered = <<>> /\ llm_calls = 0 /\ exc = NoneVal /\ returned = NonePayload
    /\ RouteIdle /\ FuseIdle /\ CostIdle /\ PlanIdle /\ SessIdle

\* main.py lines 44-58 and researcher.py lines 316-331: a persona name that
\* is not configured ends the call with a text; otherwise the graph is
\* invoked at its entry point
RunStalkerAI ==
    /\ pc = "run_stalker_ai"
    /\ IF persona \notin DOMAIN PERSONAS
       THEN /\ returned' = Return(InvalidPersonaText(persona))
            /\ pc' = "returned"
       ELSE /\ returned' = returned
            /\ pc' = "generate_plan"
    /\ UNCHANGED <<target_name, persona, plan, error, collected_data,
                   state_sources_log, k, n, routed, tasks, task_state, calls,
                   results, sources_log, report, entered, llm_calls, exc>>
    /\ UNCHANGED <<routeVars, fuseVars, costVars, planVars, sessVars>>

\* generate_plan_node, lines 31-39; a plan is a non-empty list of task texts
GeneratePlan ==
    /\ pc = "generate_plan"
    /\ \E o \in PlannerOutcomes :
          LET update == generate_plan_node(o)
          IN  /\ plan' = Merged(update, "plan", plan)
              /\ error' = Merged(update, "error", error)
    /\ entered' = Append(entered, "generate_plan")
    /\ pc' = NodeAfter("generate_plan")
    /\ UNCHANGED <<target_name, persona, collected_data, state_sources_log, k, n,
                   routed, tasks, task_state, calls, results, sources_log,
                   report, llm_calls, exc, returned>>
    /\ UNCHANGED <<routeVars, fuseVars, costVars, planVars, sessVars>>

\* execute_research_node, lines 44-55: the node returns at once after a prior
\* error or without a plan, and goes on to match the tasks otherwise
StartExecute ==
    /\ pc = "execute_research"
    /\ LET e == ExecuteEntry(error, plan)
       IN  /\ error' = Merged(e.update, "error", error)
           /\ pc' = IF e.branch = "run" THEN "match" ELSE NodeAfter("execute_research")
           /\ k' = IF e.branch = "run" THEN 1 ELSE k
    /\ entered' = Append(entered, "execute_research")
    /\ UNCHANGED <<target_name, persona, plan, collected_data,
                   state_sources_log, n, routed, tasks, task_state, calls, results,
                   sources_log, report, llm_calls, exc, returned>>
    /\ UNCHANGED <<routeVars, fuseVars, costVars, planVars, sessVars>>

\* lines 57-110: one plan entry is matched to a tool; a task is created when
\* the tool is available.  create_task starts the academic search in a
\* thread; the other calls are coroutines that run when they are awaited.
MatchTask ==
    /\ pc = "match"
    /\ LET r     == RouteTask(target_name, plan[k])
           avail == r.tool \in ToolMap
           ts    == IF avail
                    THEN Append(tasks, [tool |-> r.tool, input |-> r.input, idx |-> k])
                    ELSE tasks
       IN  /\ routed' = Append(routed, r)
           /\ tasks' = ts
           /\ task_state' =
                 IF avail
                 THEN Append(task_state,
                             [st |-> IF r.tool = "search_arxiv" THEN "running" ELSE "created"])
                 ELSE task_state
           /\ calls' = IF avail THEN Append(calls, CallsOnCreate(r.tool)) ELSE calls
           /\ pc' = IF k < Len(plan) THEN "match"
                    ELSE IF ts # <<>> THEN "await" ELSE "structure"
    /\ k' = k + 1
    /\ n' = 1
    /\ UNCHANGED <<target_name, persona, plan, error, collected_data,
                   state_sources_log, results, sources_log>>
    /\ UNCHANGED runVars
    /\ UNCHANGED <<routeVars, fuseVars, costVars, planVars, sessVars>>

\* the thread of an academic search ends, at any time before it is awaited
ThreadComplete ==
    /\ pc = "await"
    /\ \E j \in 1..Len(tasks) :
          /\ task_state[j].st = "running"
          /\ \E o \in Outcomes(tasks[j].tool) :
                task_state' = [task_state EXCEPT ![j] = [st |-> "finished", out |-> o]]
    /\ UNCHANGED <<target_name, persona, plan, error, collected_data,
                   state_sources_log, pc, k, n, routed, tasks, calls, results,
                   sources_log>>
    /\ UNCHANGED runVars
    /\ UNCHANGED <<routeVars, fuseVars, costVars, planVars, sessVars>>

\* lines 118-147: task n is awaited and its outcome processed
AwaitTask ==
    /\ pc = "await"
    /\ task_state[n].st \in {"created", "finished"}
    /\ \E o \in Outcomes(tasks[n].tool) :
          /\ task_state[n].st = "finished" => o = task_state[n].out
          /\ LET p == ProcessResult(tasks[n].tool, o, results, sources_log)
             IN  /\ results' = p.results
                 /\ sources_log' = p.sources_log
          /\ task_state' = [task_state EXCEPT ![n] = [st |-> "awaited", out |-> o]]
          /\ calls' = [calls EXCEPT ![n] = @ + CallsOnAwait(task_state[n].st)]
          /\ pc' = AwaitNext(Raised(o), n, Len(tasks))
    /\ n' = n + 1
    /\ UNCHANGED <<target_name, persona, plan, error, collected_data,
                   state_sources_log, k, routed, tasks>>
    /\ UNCHANGED runVars
    /\ UNCHANGED <<routeVars, fuseVars, costVars, planVars, sessVars>>

\* line 120: the awaited call never completes.  The await is not wrapped in
\* asyncio.wait_for and REQUEST_TIMEOUT is not used, so the loop stays there.
ProviderHangs ==
    /\ pc = "await"
    /\ task_state[n].st \in {"created", "running"}
    /\ task_state' = [task_state EXCEPT ![n] = [st |-> "hung"]]
    /\ calls' = [calls EXCEPT ![n] = @ + CallsOnAwait(task_state[n].st)]
    /\ UNCHANGED <<target_name, persona, plan, error, collected_data,
                   state_sources_log, pc, k, n, routed, tasks, results, sources_log>>
    /\ UNCHANGED runVars
    /\ UNCHANGED <<routeVars, fuseVars, costVars, planVars, sessVars>>

\* lines 151-171: the structured profile is appended and the node returns
StructureAndReturn ==
    /\ pc = "structure"
    /\ collected_data' = results \o StructuringEntries(results)
    /\ state_sources_log' = sources_log
    /\ error' = NoneVal
    /\ pc' = NodeAfter("execute_research")
    /\ UNCHANGED <<target_name, persona, plan, k, n, routed, tasks, task_state,
                   calls, results, sources_log>>
    /\ UNCHANGED runVars
    /\ UNCHANGED <<routeVars, fuseVars, costVars, planVars, sessVars>>

\* generate_report_node, lines 173-296.  An exception raised while the summary
\* is built is not handled by the node and leaves the graph.
GenerateReport ==
    /\ pc = "generate_report"
    /\ \E o \in ReportLLMOutcomes :
          LET r == generate_report_node(error, collected_data, o)
          IN  /\ report' = Merged(r.update, "report", report)
              /\ error' = Merged(r.update, "error", error)
              /\ llm_calls' = llm_calls + r.llm
              /\ exc' = r.raised
              /\ pc' = IF r.raised # NoneVal THEN "aborted"
                       ELSE NodeAfter("generate_report")
    /\ entered' = Append(entered, "generate_report")
    /\ UNCHANGED <<target_name, persona, plan, collected_data, state_sources_log,
                   k, n, routed, tasks, task_state, calls, results, sources_log,
                   returned>>
    /\ UNCHANGED <<routeVars, fuseVars, costVars, planVars, sessVars>>

\* the graph has ended or an exception has left it: run_research returns the
\* report, the sources and the error (lines 332-339), generate_person_report
\* renders them (lines 363-371) and run_stalker_ai returns the text, or the
\* text of its handler (main.py lines 60-68)
FinishRun ==
    /\ pc \in {"END", "aborted"}
    /\ returned' =
          IF pc = "aborted" THEN OnException(exc)
          ELSE Return(generate_person_report(
                          target_name, run_research(report, state_sources_log, error)))
    /\ pc' = "returned"
    /\ UNCHANGED <<target_name, persona, plan, error, collected_data,
                   state_sources_log, k, n, routed, tasks, task_state, calls,
                   results, sources_log, report, entered, llm_calls, exc>>
    /\ UNCHANGED <<routeVars, fuseVars, costVars, planVars, sessVars>>

Next ==
    \/ RunStalkerAI
    \/ GeneratePlan
    \/ StartExecute
    \/ MatchTask
    \/ ThreadComplete
    \/ AwaitTask
    \/ ProviderHangs
    \/ StructureAndReturn
    \/ GenerateReport
    \/ FinishRun

Spec == Init /\ [][Next]_vars

\* The event loop runs every step of the node that can run, and a thread that
\* has a result delivers it; nothing makes a provider answer.  MatchTask is
\* enabled exactly when pc = "match" and is taken at most Len(plan) times, so
\* its weak fairness is written as the state condition it amounts to.
SpecLive ==
    /\ Spec
    /\ WF_vars(RunStalkerAI) /\ WF_vars(GeneratePlan) /\ WF_vars(StartExecute)
    /\ []<>(pc # "match")
    /\ WF_vars(ThreadComplete) /\ WF_vars(AwaitTask) /\ WF_vars(StructureAndReturn)
    /\ WF_vars(GenerateReport) /\ WF_vars(FinishRun)

(***************************************************************************)
(* Concurrent calls on one cost tracker.  "self.x += 1" reads the attribute *)
(* and writes it back in two steps, and no lock is held between them.      *)
(***************************************************************************)
InitCost ==
    /\ tavily_searches = 0
    /\ arxiv_searches = 0
    /\ th_kind \in [1..MaxThreads -> CallKinds]
    /\ th_pc = [t \in 1..MaxThreads |-> "start"]
    /\ th_tmp = [t \in 1..MaxThreads |-> 0]
    /\ RouteIdle /\ FuseIdle /\ ExecIdle /\ PlanIdle /\ SessIdle

\* lines 79, 246, 275: the read of "+= 1"
LoadCounter(t) ==
    /\ th_pc[t] = "start"
    /\ th_tmp' = [th_tmp EXCEPT ![t] =
                    IF CounterOf(th_kind[t]) = "arxiv_searches"
                    THEN arxiv_searches ELSE tavily_searches]
    /\ th_pc' = [th_pc EXCEPT ![t] = "loaded"]
    /\ UNCHANGED <<tavily_searches, arxiv_searches, th_kind>>
    /\ UNCHANGED <<routeVars, fuseVars, execVars, planVars, sessVars>>

\* lines 79, 246, 275: the write of "+= 1"
StoreCounter(t) ==
    /\ th_pc[t] = "loaded"
    /\ IF CounterOf(th_kind[t]) = "arxiv_searches"
       THEN /\ arxiv_searches' = th_tmp[t] + 1
            /\ UNCHANGED tavily_searches
       ELSE /\ tavily_searches' = th_tmp[t] + 1
            /\ UNCHANGED arxiv_searches
    /\ th_pc' = [th_pc EXCEPT ![t] =
                    IF th_kind[t] = "on_retriever_start" THEN "returned" ELSE "counted"]
    /\ UNCHANGED <<th_kind, th_tmp>>
    /\ UNCHANGED <<routeVars, fuseVars, execVars, planVars, sessVars>>

\* lines 252-269 and 281-298: the provider request, which returns documents
\* or raises; the handler returns [] and leaves the counter as it is
ProviderRequest(t) ==
    /\ th_pc[t] = "counted"
    /\ \E end \in {"returned", "failed"} : th_pc' = [th_pc EXCEPT ![t] = end]
    /\ UNCHANGED <<tavily_searches, arxiv_searches, th_kind, th_tmp>>
    /\ UNCHANGED <<routeVars, fuseVars, execVars, planVars, sessVars>>

NextCost ==
    \E t \in 1..MaxThreads :
        \/ LoadCounter(t)
        \/ StoreCounter(t)
        \/ ProviderRequest(t)

SpecCost == InitCost /\ [][NextCost]_vars

(***************************************************************************)
(* Repeated calls of generate_research_plan for one goal                   *)
(***************************************************************************)
InitPlan ==
    /\ pl_goal \in Goals
    /\ pl_resp = NonePayload
    /\ pl_plan = <<>>
    /\ pl_prev = NoCall
    /\ RouteIdle /\ FuseIdle /\ CostIdle /\ ExecIdle /\ SessIdle

\* one call: the collaborator answers or raises, and the plan is returned
CallPlanner ==
    /\ \E r \in LLMResponses :
          /\ pl_resp' = r
          /\ pl_plan' = generate_research_plan(pl_goal, r)
    /\ pl_prev' = [resp |-> pl_resp, plan |-> pl_plan]
    /\ UNCHANGED <<pl_goal, routeVars, fuseVars, costVars, execVars, sessVars>>

NextPlan == CallPlanner

SpecPlan == InitPlan /\ [][NextPlan]_vars

(***************************************************************************)
(* One cost-tracking session whose calls are made one after the other, as  *)
(* MultiSourceRetriever.search makes them (lines 316-321)                  *)
(***************************************************************************)
InitSession ==
    /\ tavily_searches = 0
    /\ arxiv_searches = 0
    /\ th_pc = <<>> /\ th_kind = <<>> /\ th_tmp = <<>>
    /\ openai_usage = NewUsage
    /\ cost_log = <<>>
    /\ s_pc = "idle"
    /\ s_calls = <<>>
    /\ trackers = <<>> /\ cost_tracker = 0 /\ sr_costs = NonePayload
    /\ RouteIdle /\ FuseIdle /\ ExecIdle /\ PlanIdle

\* _search_web / _search_arxiv up to the provider request: the counter is
\* incremented and the call is logged (lines 244-250, 273-279)
SearchStart ==
    /\ s_pc = "idle"
    /\ Len(s_calls) < MaxSessionCalls
    /\ \E kind \in {"_search_web", "_search_arxiv"} :
          /\ IF kind = "_search_web"
             THEN tavily_searches' = tavily_searches + 1 /\ UNCHANGED arxiv_searches
             ELSE arxiv_searches' = arxiv_searches + 1 /\ UNCHANGED tavily_searches
          /\ cost_log' = Append(cost_log, SearchLogLine(kind))
          /\ s_calls' = Append(s_calls, [kind |-> kind, outcome |-> "pending"])
    /\ s_pc' = "request"
    /\ UNCHANGED <<th_pc, th_kind, th_tmp, openai_usage>>
    /\ UNCHANGED searchVars
    /\ UNCHANGED <<routeVars, fuseVars, execVars, planVars>>

\* the provider request returns documents or raises (lines 252-269, 281-298)
SearchRequest ==
    /\ s_pc = "request"
    /\ \E outcome \in {"returned", "failed"} :
          LET kind == s_calls[Len(s_calls)].kind
          IN  /\ s_calls' = [s_calls EXCEPT ![Len(s_calls)].outcome = outcome]
              /\ IF kind = "_search_web"
                 THEN /\ tavily_searches' = AfterRequest(outcome, tavily_searches)
                      /\ UNCHANGED arxiv_searches
                 ELSE /\ arxiv_searches' = AfterRequest(outcome, arxiv_searches)
                      /\ UNCHANGED tavily_searches
    /\ s_pc' = "idle"
    /\ UNCHANGED <<th_pc, th_kind, th_tmp, openai_usage, cost_log>>
    /\ UNCHANGED searchVars
    /\ UNCHANGED <<routeVars, fuseVars, execVars, planVars>>

\* on_llm_start, lines 91-100
LlmStart ==
    /\ s_pc = "idle"
    /\ Len(s_calls) < MaxSessionCalls
    /\ \E name \in ModelNames :
          /\ openai_usage' = on_llm_start(openai_usage, name)
          /\ s_calls' = Append(s_calls, [kind |-> "llm", model |-> name,
                                         outcome |-> "pending"])
    /\ s_pc' = "llm"
    /\ UNCHANGED <<tavily_searches, arxiv_searches, th_pc, th_kind, th_tmp, cost_log>>
    /\ UNCHANGED searchVars
    /\ UNCHANGED <<routeVars, fuseVars, execVars, planVars>>

\* on_llm_end, lines 102-134
LlmEnd ==
    /\ s_pc = "llm"
    /\ \E tokens \in TokenUsages :
          /\ openai_usage' = on_llm_end(openai_usage, tokens)
          /\ cost_log' =
                IF IsDict(tokens)
                THEN Append(cost_log, [what |-> "OpenAI LLM call completed",
                                       cost |-> LlmCallCost(openai_usage, tokens)])
                ELSE cost_log
    /\ s_calls' = [s_calls EXCEPT ![Len(s_calls)].outcome = "returned"]
    /\ s_pc' = "idle"
    /\ UNCHANGED <<tavily_searches, arxiv_searches, th_pc, th_kind, th_tmp>>
    /\ UNCHANGED searchVars
    /\ UNCHANGED <<routeVars, fuseVars, execVars, planVars>>

NextSession ==
    \/ SearchStart
    \/ SearchRequest
    \/ LlmStart
    \/ LlmEnd

SpecSession == InitSession /\ [][NextSession]_vars

(***************************************************************************)
(* One call of MultiSourceRetriever.search on a retriever that has just    *)
(* been constructed (retriever.py lines 192-240 and 300-361)               *)
(***************************************************************************)
\* CostTrackingCallback.__init__, lines 58-71
NewTracker == [tavily_searches |-> 0, arxiv_searches |-> 0, openai_usage |-> NewUsage]

\* lines 195, 211 and 234: the tracker made by __init__ is the object in the
\* callbacks of the LLM and of the agent, and stays there
BoundTracker == 1

\* get_cost_summary, lines 136-184: the counts and the token usage of the
\* tracker with the costs computed from them (the costs before lines 168,
\* 181 and 183 round them to six decimals)
CostSummary(tr) ==
    [tavily_searches |-> tr.tavily_searches,
     arxiv_searches |-> tr.arxiv_searches,
     prompt_tokens |-> tr.openai_usage.prompt_tokens,
     completion_tokens |-> tr.openai_usage.completion_tokens,
     total_tokens |-> tr.openai_usage.total_tokens,
     costs |-> get_cost_summary(tr.tavily_searches, tr.openai_usage)]

\* lines 246 and 275: the counter of the tracker that self.cost_tracker names
\* when the call is made
CountSearch(trs, current, kind) ==
    IF kind = "_search_web"
    THEN [trs EXCEPT ![current].tavily_searches = @ + 1]
    ELSE [trs EXCEPT ![current].arxiv_searches = @ + 1]

InitSearch ==
    /\ trackers = <<NewTracker>>
    /\ cost_tracker = 1
    /\ sr_costs = NonePayload
    /\ s_pc = "constructed"
    /\ s_calls = <<>>
    /\ openai_usage = NonePayload /\ cost_log = <<>>
    /\ RouteIdle /\ FuseIdle /\ CostIdle /\ ExecIdle /\ PlanIdle

\* search, lines 302-316: a fresh tracker replaces self.cost_tracker and the
\* agent is started
SearchBegin ==
    /\ s_pc = "constructed"
    /\ trackers' = Append(trackers, NewTracker)
    /\ cost_tracker' = Len(trackers) + 1
    /\ s_pc' = "agent"
    /\ UNCHANGED <<sr_costs, s_calls, openai_usage, cost_log>>
    /\ UNCHANGED <<routeVars, fuseVars, costVars, execVars, planVars>>

\* line 316: the agent calls its LLM; on_llm_start and on_llm_end run on the
\* tracker in the callbacks of the LLM
AgentLlmCall ==
    /\ s_pc = "agent"
    /\ Len(s_calls) < MaxSessionCalls
    /\ \E name \in ModelNames, tokens \in TokenUsages :
          /\ trackers' = [trackers EXCEPT ![BoundTracker].openai_usage =
                              on_llm_end(on_llm_start(@, name), tokens)]
          /\ s_calls' = Append(s_calls, [kind |-> "llm", model |-> name,
                                         tokens |-> tokens, outcome |-> "returned"])
    /\ UNCHANGED <<cost_tracker, sr_costs, s_pc, openai_usage, cost_log>>
    /\ UNCHANGED <<routeVars, fuseVars, costVars, execVars, planVars>>

\* line 316: the agent runs one of its tools, _search_arxiv or _search_web
\* (lines 242-298), whose request returns or fails
AgentToolCall ==
    /\ s_pc = "agent"
    /\ Len(s_calls) < MaxSessionCalls
    /\ \E kind \in {"_search_web", "_search_arxiv"}, outcome \in {"returned", "failed"} :
          /\ trackers' = CountSearch(trackers, cost_tracker, kind)
          /\ s_calls' = Append(s_calls, [kind |-> kind, outcome |-> outcome])
    /\ UNCHANGED <<cost_tracker, sr_costs, s_pc, openai_usage, cost_log>>
    /\ UNCHANGED <<routeVars, fuseVars, costVars, execVars, planVars>>

\* line 316 and lines 344-355: agent.run returns, or it raises and the handler
\* of search returns the summary of self.cost_tracker
AgentEnds ==
    /\ s_pc = "agent"
    /\ \E outcome \in {"returned", "raised"} :
          IF outcome = "returned"
          THEN s_pc' = "direct" /\ sr_costs' = sr_costs
          ELSE s_pc' = "failed" /\ sr_costs' = CostSummary(trackers[cost_tracker])
    /\ UNCHANGED <<trackers, cost_tracker, s_calls, openai_usage, cost_log>>
    /\ UNCHANGED <<routeVars, fuseVars, costVars, execVars, planVars>>

\* lines 320-343: the academic search and the web search are made directly,
\* and the summary of self.cost_tracker is returned
DirectSearches ==
    /\ s_pc = "direct"
    /\ \E o1, o2 \in {"returned", "failed"} :
          s_calls' = s_calls \o <<[kind |-> "_search_arxiv", outcome |-> o1],
                                  [kind |-> "_search_web", outcome |-> o2]>>
    /\ LET trs == CountSearch(CountSearch(trackers, cost_tracker, "_search_arxiv"),
                              cost_tracker, "_search_web")
       IN  /\ trackers' = trs
           /\ sr_costs' = CostSummary(trs[cost_tracker])
    /\ s_pc' = "returned"
    /\ UNCHANGED <<cost_tracker, openai_usage, cost_log>>
    /\ UNCHANGED <<routeVars, fuseVars, costVars, execVars, planVars>>

\* MultiSourceRetriever.get_cost_summary, lines 357-361, called after search
GetCostSummary ==
    /\ s_pc = "returned"
    /\ sr_costs' = CostSummary(trackers[cost_tracker])
    /\ s_pc' = "summarised"
    /\ UNCHANGED <<trackers, cost_tracker, s_calls, openai_usage, cost_log>>
    /\ UNCHANGED <<routeVars, fuseVars, costVars, execVars, planVars>>

NextSearch ==
    \/ SearchBegin
    \/ AgentLlmCall
    \/ AgentToolCall
    \/ AgentEnds
    \/ DirectSearches
    \/ GetCostSummary

SpecSearch == InitSearch /\ [][NextSearch]_vars

(***************************************************************************)
(* Properties of the router                                                *)
(***************************************************************************)
Routed == rt_pc = "routed"

MatchesLinkedIn(text) == Contains(LINKEDIN_PATTERN, Lower(text))
MatchesGitHub(text)   == Contains(GITHUB_KEYWORD, Lower(text))
MatchesAcademic(text) == \E term \in AcademicTerms : Contains(term, Lower(text))

\* C6: the rule table is evaluated in a fixed order and the first matching
\* rule decides: profile URL pattern, then code-hosting keyword, then any
\* academic keyword, then general search; every text gets exactly one tool.
C6_FirstMatchWins ==
    Routed =>
        /\ rt_out.tool \in ToolNames
        /\ MatchesLinkedIn(rt_text) => rt_out.tool = "scrape_linkedin"
        /\ ~MatchesLinkedIn(rt_text) /\ MatchesGitHub(rt_text)
              => rt_out.tool = "scrape_github"
        /\ ~MatchesLinkedIn(rt_text) /\ ~MatchesGitHub(rt_text) /\ MatchesAcademic(rt_text)
              => rt_out.tool = "search_arxiv"
        /\ ~MatchesLinkedIn(rt_text) /\ ~MatchesGitHub(rt_text) /\ ~MatchesAcademic(rt_text)
              => rt_out.tool = "search_tavily"

\* a text that matches both the first and the second rule has been routed
C6_Witness ==
    /\ Routed
    /\ MatchesLinkedIn(rt_text) /\ MatchesGitHub(rt_text)
    /\ rt_out.tool = "scrape_linkedin"

\* C7: Scenario A, "Check out his GitHub profile at johndoe", is routed to the
\* code-hosting scraper with the input "johndoe".
C7_ScenarioA ==
    (Routed /\ rt_text = ScenarioA_Text)
        => rt_out = [tool |-> "scrape_github", input |-> W_johndoe]

\* the token that follows the first keyword-bearing word, without its
\* surrounding punctuation, reduced to its last path segment when it is a URL
HandleAfterKeyword(text) ==
    LET words == Split(text)
        kw    == {i \in 1..Len(words) :
                     Contains(GITHUB_KEYWORD, Lower(words[i])) /\ i < Len(words)}
        token == Strip(words[SetMin(kw) + 1], StripChars)
    IN  IF kw = {} THEN <<>>
        ELSE IF Contains(<<"/">>, token) THEN LastSegment(token) ELSE token

\* C8: a text routed by the code-hosting rule gets as input the handle taken
\* from the token after the keyword, or the raw text when no handle can be
\* extracted; the input is never empty.
C8_HandleOrRawText ==
    (Routed /\ rt_out.tool = "scrape_github") =>
        /\ rt_out.input # <<>>
        /\ rt_out.input = (IF HandleAfterKeyword(rt_text) = <<>>
                           THEN rt_text ELSE HandleAfterKeyword(rt_text))

\* "Jane Smith academic paper about transformers by Jane Smith"
ScenarioB_Input == <<"J","a","n","e"," ","S","m","i","t","h"," ","a","c","a","d","e","m","i","c"," ","p","a","p","e","r"," ","a","b","o","u","t"," ","t","r","a","n","s","f","o","r","m","e","r","s"," ","b","y"," ","J","a","n","e"," ","S","m","i","t","h">>

\* C9: a text routed to academic or to general search gets as input the goal,
\* one space, then the raw text; Scenario B gives the academic search the
\* input "Jane Smith academic paper about transformers by Jane Smith".
C9_SearchInput ==
    /\ (Routed /\ rt_out.tool \in {"search_arxiv", "search_tavily"}) =>
          /\ Len(rt_out.input) = Len(rt_goal) + 1 + Len(rt_text)
          /\ SubSeq(rt_out.input, 1, Len(rt_goal)) = rt_goal
          /\ rt_out.input[Len(rt_goal) + 1] = " "
          /\ SubSeq(rt_out.input, Len(rt_goal) + 2, Len(rt_out.input)) = rt_text
    /\ (Routed /\ rt_text = ScenarioB_Text /\ rt_goal = Goal_JaneSmith) =>
          rt_out = [tool |-> "search_arxiv", input |-> ScenarioB_Input]

\* Scenario B has been routed
C9_Witness ==
    /\ Routed /\ rt_text = ScenarioB_Text /\ rt_goal = Goal_JaneSmith
    /\ rt_out.tool = "search_arxiv"

\* the word of the text in which the case-folded match was made, without its
\* surrounding punctuation
MatchedURL(text) ==
    LET words == Split(text)
        hits  == {i \in 1..Len(words) : Contains(LINKEDIN_PATTERN, Lower(words[i]))}
    IN  Strip(words[SetMin(hits)], StripChars)

\* C10: a text that matches the profile URL rule (on the case-folded text)
\* gets as input the matched URL, not the whole text.
C10_MatchedURL ==
    (Routed /\ rt_out.tool = "scrape_linkedin") => rt_out.input = MatchedURL(rt_text)

(***************************************************************************)
(* Properties of the cost tracker                                          *)
(***************************************************************************)
CallsMade(counter) ==
    Cardinality({t \in 1..MaxThreads :
                    CounterOf(th_kind[t]) = counter /\ th_pc[t] \in {"returned", "failed"}})

AllCallsOver == \A t \in 1..MaxThreads : th_pc[t] \in {"returned", "failed"}

\* C4: whatever the interleaving of the calls that record on one tracker, the
\* counts equal the number of calls made and the total is the sum of their
\* costs.
C4_NoLostUpdate ==
    AllCallsOver =>
        /\ tavily_searches = CallsMade("tavily_searches")
        /\ arxiv_searches = CallsMade("arxiv_searches")
        /\ TotalCost(tavily_searches)
              = CallsMade("tavily_searches") * TAVILY_COST_PER_SEARCH

(***************************************************************************)
(* Properties of the executor                                              *)
(***************************************************************************)
\* execute_research_node has run the tasks of the plan and returned its update
\* of the state
ExecDone == pc = "generate_report" /\ routed # <<>>

AwaitedSet == {j \in 1..Len(task_state) : task_state[j].st = "awaited"}
RaisedSet  == {j \in AwaitedSet : Raised(task_state[j].out)}

Status(entry) == IF "error" \in DOMAIN entry THEN "Error" ELSE "Ok"

\* the plan entries whose tool the persona has
AvailableIdx ==
    {i \in 1..Len(plan) : RouteTask(target_name, plan[i]).tool \in ToolMap}

\* entry j is the entry of task j: its tool, and the outcome of its call
EntryOfTask(entries, j) ==
    /\ j <= Len(entries)
    /\ entries[j].tool = tasks[j].tool
    /\ Raised(task_state[j].out) =>
          entries[j] = [tool |-> tasks[j].tool, error |-> task_state[j].out.raise]
    /\ (~Raised(task_state[j].out) /\ Status(entries[j]) = "Ok") =>
          entries[j] = [tool |-> tasks[j].tool, result |-> task_state[j].out.ret]

\* C1: a provider call that raises affects only its own task.  The node never
\* ends by the exception; every task already awaited has its entry; when the
\* node returns, every task whose tool is available has been awaited and has
\* its own entry, and error is None.
C1_FailureIsolated ==
    /\ pc # "raised"
    /\ pc \in {"await", "structure"} =>
          \A j \in AwaitedSet : EntryOfTask(results, j)
    /\ ExecDone =>
          /\ error = NoneVal
          /\ \A i \in AvailableIdx : \E j \in 1..Len(tasks) : tasks[j].idx = i
          /\ \A j \in 1..Len(tasks) : j \in AwaitedSet /\ EntryOfTask(collected_data, j)

\* the node has returned, a call has raised, and a task after it has an entry
\* with a result
C1_Witness ==
    /\ ExecDone
    /\ \E j \in RaisedSet : \E j2 \in (j + 1)..Len(tasks) :
          "result" \in DOMAIN collected_data[j2]

\* Scenario D: three tasks, only the call of the second one raises, and the
\* results of the other two are processed without an exception
ScenarioD ==
    /\ Len(tasks) = 3
    /\ RaisedSet = {2}
    /\ \A j \in {1, 3} :
          LogDocs(Get(task_state[j].out.ret, "docs", <<>>), 1, "source", <<>>).raised = FALSE

\* C2 as stated: one result per task of the plan, at the index of the task,
\* and [Ok, Error, Ok] for three tasks of which the second call errors.
C2_OneResultPerPlanTask ==
    ExecDone =>
        /\ Len(collected_data) = Len(plan)
        /\ \A i \in 1..Len(plan) :
              collected_data[i].tool = RouteTask(target_name, plan[i]).tool
        /\ ScenarioD =>
              [i \in 1..Len(collected_data) |-> Status(collected_data[i])]
                  = <<"Ok", "Error", "Ok">>

\* C2, amended: one entry per task of the plan whose tool is available, in the
\* order of the plan, then at most one entry of the tool "data_structuring",
\* present exactly when a GitHub or LinkedIn entry without error holds a
\* non-empty payload; in Scenario D the first three entries have the statuses
\* [Ok, Error, Ok].
C2_OneEntryPerAvailableTask ==
    ExecDone =>
        LET nt == Len(tasks)
            scraped == {j \in 1..nt :
                          /\ collected_data[j].tool \in {"scrape_github", "scrape_linkedin"}
                          /\ Status(collected_data[j]) = "Ok"
                          /\ DictTruthy(collected_data[j].result)}
        IN  /\ nt = Cardinality(AvailableIdx)
            /\ \A j \in 1..nt :
                  /\ tasks[j].idx \in AvailableIdx
                  /\ j > 1 => tasks[j - 1].idx < tasks[j].idx
                  /\ EntryOfTask(collected_data, j)
                  /\ collected_data[j].tool
                        = RouteTask(target_name, plan[tasks[j].idx]).tool
            /\ Len(collected_data) = IF scraped = {} THEN nt ELSE nt + 1
            /\ scraped # {} => collected_data[nt + 1].tool = "data_structuring"
            /\ ScenarioD =>
                  [i \in 1..3 |-> Status(collected_data[i])] = <<"Ok", "Error", "Ok">>

\* Scenario D has run: three entries [Ok, Error, Ok], followed by the entry of
\* the structured profile
C2_Witness ==
    /\ ExecDone /\ ScenarioD
    /\ Len(collected_data) = 4
    /\ [i \in 1..3 |-> Status(collected_data[i])] = <<"Ok", "Error", "Ok">>
    /\ collected_data[4].tool = "data_structuring"

ListOrders(len) ==
    {p \in [1..len -> 1..len] : \A a, b \in 1..len : a # b => p[a] # p[b]}

\* C3: the structured profile built from the task results is the same for
\* every permutation of the list of results.
C3_OrderIndependent ==
    ExecDone =>
        LET rs == SubSeq(collected_data, 1, Len(tasks))
        IN  \A p \in ListOrders(Len(rs)) :
                StructuringEntries([i \in 1..Len(rs) |-> rs[p[i]]])
                    = StructuringEntries(rs)

(***************************************************************************)
(* Properties of the fused profile                                         *)
(***************************************************************************)
Fused == f_pc = "done"

SuppliedName(data)     == IF SourceOk(data) THEN Get(data, "name", NoneVal) ELSE NoneVal
SuppliedHeadline(data) == IF SourceOk(data) THEN Get(data, "headline", NoneVal) ELSE NoneVal
SuppliedBio(data)      == IF SourceOk(data) THEN Get(data, "bio", NoneVal) ELSE NoneVal

\* C5: name and headline follow the source priority.  A value supplied by a
\* successful LinkedIn result (a non-empty string) is the fused value, whatever
\* the GitHub result supplies; the GitHub name or bio is the fused value only
\* when the LinkedIn result supplies none.
C5_ScalarPriority ==
    Fused =>
        /\ TruthyStr(SuppliedName(f_linkedin))
              => f_out.name = SuppliedName(f_linkedin)
        /\ TruthyStr(SuppliedHeadline(f_linkedin))
              => f_out.headline = SuppliedHeadline(f_linkedin)
        /\ (TruthyStr(f_out.name) /\ f_out.name # SuppliedName(f_linkedin))
              => (~TruthyStr(SuppliedName(f_linkedin))
                  /\ f_out.name = SuppliedName(f_github))
        /\ (TruthyStr(f_out.headline) /\ f_out.headline # SuppliedHeadline(f_linkedin))
              => (~TruthyStr(SuppliedHeadline(f_linkedin))
                  /\ f_out.headline = SuppliedBio(f_github))

\* Scenario C: both results are successful, both supply a name, the names differ
C5_Witness ==
    /\ Fused
    /\ TruthyStr(SuppliedName(f_linkedin)) /\ TruthyStr(SuppliedName(f_github))
    /\ SuppliedName(f_linkedin) # SuppliedName(f_github)
    /\ f_out.name = SuppliedName(f_linkedin)

(***************************************************************************)
(* Properties of the planner                                               *)
(***************************************************************************)
PlannerCalled(resp) == "none" \notin DOMAIN resp

\* the text has no usable line: it holds nothing but whitespace
NoUsableLines(content) == \A i \in 1..Len(content) : content[i] \in Whitespace

\* the collaborator failed, or returned no usable line
PlannerFailed(resp) ==
    /\ PlannerCalled(resp)
    /\ Raised(resp) \/ NoUsableLines(resp.ret)

\* C11: whenever the collaborator fails or returns no usable line, the plan is
\* not empty, and it is the same plan on every such call for the goal, whether
\* the cause was an exception or an empty output.
C11_FallbackDeterminism ==
    /\ PlannerFailed(pl_resp) => pl_plan # <<>>
    /\ (PlannerFailed(pl_resp) /\ PlannerFailed(pl_prev.resp))
          => pl_plan = pl_prev.plan

\* the first positions of the lines of the text, and the last position of the
\* line that starts at s
LineStarts(content) ==
    {1} \cup {i + 1 : i \in {j \in 1..Len(content) : content[j] = "\n"}}
LineEnd(content, s) ==
    SetMin({j \in s..Len(content) : content[j] = "\n"} \cup {Len(content) + 1}) - 1
\* the positions of the line that hold something else than whitespace
Inked(content, s) == {j \in s..LineEnd(content, s) : content[j] \notin Whitespace}
NonBlankStarts(content) == {s \in LineStarts(content) : Inked(content, s) # {}}

\* C12: when the text has a non-blank line, the plan is the sequence of its
\* non-blank lines, in their order, each without the whitespace around it;
\* no entry is empty or starts or ends with whitespace.
C12_TrimmedLinesInOrder ==
    (PlannerCalled(pl_resp) /\ ~PlannerFailed(pl_resp)) =>
        LET content == pl_resp.ret
            nb      == NonBlankStarts(content)
        IN  /\ Len(pl_plan) = Cardinality(nb)
            /\ \A s \in nb :
                  pl_plan[Cardinality({t \in nb : t <= s})]
                      = SubSeq(content, SetMin(Inked(content, s)), SetMax(Inked(content, s)))
            /\ \A i \in 1..Len(pl_plan) :
                  /\ pl_plan[i] # <<>>
                  /\ pl_plan[i][1] \notin Whitespace
                  /\ pl_plan[i][Len(pl_plan[i])] \notin Whitespace

\* a text of a blank line and a line with whitespace around its task has
\* given a plan of that one task
C12_Witness ==
    /\ PlannerCalled(pl_resp) /\ ~Raised(pl_resp)
    /\ pl_resp.ret = JoinLines(<<Line_Blank, Line_Padded>>)
    /\ pl_plan = <<<<"n","e","w","s">>>>

(***************************************************************************)
(* Properties of one cost-tracking session                                 *)
(***************************************************************************)
\* the calls of the kind made so far, whatever their outcome
Attempts(kind) == {i \in 1..Len(s_calls) : s_calls[i].kind = kind}

\* C13: the usage of a search is recorded before the provider request and
\* stays recorded whatever the outcome: at every point, also while a request
\* is in flight and after a request has failed, each counter is the number of
\* calls attempted.
C13_CountsAttempts ==
    s_pc # "off" =>
        /\ tavily_searches = Cardinality(Attempts("_search_web"))
        /\ arxiv_searches = Cardinality(Attempts("_search_arxiv"))
        /\ s_pc = "request" =>
              (IF s_calls[Len(s_calls)].kind = "_search_web"
               THEN tavily_searches ELSE arxiv_searches) >= 1

\* a web search has failed, another one has returned, and an academic search
\* has failed
C13_Witness ==
    /\ s_pc = "idle"
    /\ \E i \in Attempts("_search_web") : s_calls[i].outcome = "failed"
    /\ \E i \in Attempts("_search_web") : s_calls[i].outcome = "returned"
    /\ \E i \in Attempts("_search_arxiv") : s_calls[i].outcome = "failed"
    /\ tavily_searches = 2 /\ arxiv_searches = 1

RECURSIVE SumCosts(_)
SumCosts(log) == IF log = <<>> THEN 0 ELSE Head(log).cost + SumCosts(Tail(log))

\* C14: at every point of the session the total of get_cost_summary is the sum
\* of the costs recorded for the calls: each web search at the fixed price,
\* each LLM call at the price of the model it was made with, the academic
\* searches at zero.
C14_TotalIsSumOfEntries ==
    s_pc # "off" =>
        get_cost_summary(tavily_searches, openai_usage).total_cost = SumCosts(cost_log)

(***************************************************************************)
(* Provider calls of the executor                                          *)
(***************************************************************************)
\* C15: a task is attempted at most once.  Each task has made at most one
\* provider call at any time; a task that has been awaited, with a result or
\* with an error, has made exactly one, and it makes no other until the node
\* returns.
C15_AtMostOneCall ==
    /\ Len(calls) = Len(tasks)
    /\ \A j \in 1..Len(calls) : calls[j] <= 1
    /\ \A j \in AwaitedSet : calls[j] = 1

\* the node has returned; a call that raised and an academic search, started
\* in its thread before it was awaited, have each been made once
C15_Witness ==
    /\ ExecDone
    /\ \E j \in RaisedSet : calls[j] = 1
    /\ \E j \in AwaitedSet : tasks[j].tool = "search_arxiv" /\ calls[j] = 1

\* C16: a provider call that does not complete is cut off at its timeout and
\* its task marked, so the node always returns, with an entry for every task.
C16_ReturnsDespiteHang ==
    (pc = "execute_research")
        ~> (pc = "generate_report" /\ Len(collected_data) >= Len(tasks))

(***************************************************************************)
(* Properties of the lists of the fused profile                            *)
(***************************************************************************)
\* the payload is a result with success = True
ReportsSuccess(data) ==
    IsDict(data) /\ "success" \in DOMAIN data /\ data.success = TRUE

\* the entries of a list of a payload that are dicts
WellFormed(data, key) ==
    IF key \in DOMAIN data THEN SelectSeq(data[key], IsDict) ELSE <<>>

Range(seq) == {seq[i] : i \in 1..Len(seq)}

KeyOfWork(w)    == <<w.title, w.company>>
KeyOfProject(p) == p.name
KeyOfSkill(sk)  == sk.name

NoDuplicates(seq, Key(_)) ==
    \A i, j \in 1..Len(seq) : i # j => Key(seq[i]) # Key(seq[j])

\* C17: the lists of the fused profile hold no two entries with the same
\* natural key: title and company for work_history, repository name for
\* projects, skill name for skills.
C17_NoDuplicateKeys ==
    Fused =>
        /\ NoDuplicates(f_out.work_history, KeyOfWork)
        /\ NoDuplicates(f_out.projects, KeyOfProject)
        /\ NoDuplicates(f_out.skills, KeyOfSkill)

\* the languages that lines 96-99 keep
NamedLanguage(repo) ==
    "language" \in DOMAIN repo /\ repo.language \notin {NoneVal, "", "None", "Unknown"}

\* C20: structure_profile_data returns a profile for every pair of payloads,
\* and an entry that is not well formed costs only itself: the name, the
\* well-formed experiences, the well-formed repositories and their languages
\* of every successful payload are in the profile, and each successful source
\* is listed, whatever is wrong in the other payload or in another entry.
C20_FieldByFieldSkip ==
    Fused =>
        /\ {"name", "headline", "work_history", "projects", "skills", "metadata"}
              \subseteq DOMAIN f_out
        /\ ReportsSuccess(f_linkedin) =>
              /\ "linkedin" \in Range(f_out.metadata.sources)
              /\ TruthyStr(f_linkedin.name) => f_out.name = f_linkedin.name
              /\ \A x \in Range(WellFormed(f_linkedin, "experiences")) :
                    \E w \in Range(f_out.work_history) :
                        KeyOfWork(w) = <<x.title, x.company>>
        /\ ReportsSuccess(f_github) =>
              /\ "github" \in Range(f_out.metadata.sources)
              /\ \A r \in Range(WellFormed(f_github, "repositories")) :
                    /\ \E pr \in Range(f_out.projects) : pr.name = r.name /\ pr.url = r.url
                    /\ NamedLanguage(r) =>
                          \E sk \in Range(f_out.skills) : sk.name = r.language

\* the results of the tool that are Ok: no error entry, success = True
OkResults(tool_name) ==
    {collected_data[j].result : j \in
        {i \in 1..Len(tasks) :
            /\ collected_data[i].tool = tool_name
            /\ Status(collected_data[i]) = "Ok"
            /\ ReportsSuccess(collected_data[i].result)}}

\* the entry of the structured profile has been appended
Structured == ExecDone /\ Len(collected_data) = Len(tasks) + 1

FusedProfile == collected_data[Len(tasks) + 1].result

\* C18: no list entry is dropped.  Every experience, repository and skill of
\* every Ok result of the run is in the structured profile, under its natural
\* key, also when the run has several Ok results of one scraper.
C18_NoEntryDropped ==
    (ExecDone /\ OkResults("scrape_linkedin") \cup OkResults("scrape_github") # {}) =>
        /\ Structured
        /\ \A d \in OkResults("scrape_linkedin") :
              /\ \A x \in Range(WellFormed(d, "experiences")) :
                    \E w \in Range(FusedProfile.work_history) :
                        KeyOfWork(w) = <<x.title, x.company>>
              /\ \A sk \in Range(WellFormed(d, "skills")) :
                    \E sk2 \in Range(FusedProfile.skills) : sk2.name = sk.name
        /\ \A d \in OkResults("scrape_github") :
              \A r \in Range(WellFormed(d, "repositories")) :
                  \E pr \in Range(FusedProfile.projects) : pr.name = r.name

\* C19: the structured profile derives only from Ok results.  Its name,
\* headline, work entries, projects, skills and sources each come from a result
\* without error whose payload reports success; the error entries and the
\* payloads with success = False are still in collected_data.
C19_OnlyFromOkResults ==
    /\ ExecDone => \A j \in 1..Len(tasks) : EntryOfTask(collected_data, j)
    /\ Structured =>
          LET li == OkResults("scrape_linkedin")
              gh == OkResults("scrape_github")
              P  == FusedProfile
          IN  /\ TruthyStr(P.name) =>
                    \E d \in li \cup gh : d.name = P.name
              /\ TruthyStr(P.headline) =>
                    \/ \E d \in li : d.headline = P.headline
                    \/ \E d \in gh : d.bio = P.headline
              /\ \A w \in Range(P.work_history) :
                    \E d \in li : \E x \in Range(d.experiences) :
                        KeyOfWork(w) = <<x.title, x.company>>
              /\ \A pr \in Range(P.projects) :
                    \E d \in gh : \E r \in Range(WellFormed(d, "repositories")) :
                        pr.name = r.name /\ pr.url = r.url
              /\ \A sk \in Range(P.skills) :
                    \/ \E d \in gh : \E r \in Range(WellFormed(d, "repositories")) :
                          sk.name = r.language
                    \/ \E d \in li : sk \in Range(WellFormed(d, "skills"))
              /\ "linkedin" \in Range(P.metadata.sources) => li # {}
              /\ "github" \in Range(P.metadata.sources) => gh # {}

\* an Ok LinkedIn result has been fused alone, while a call has raised and a
\* GitHub payload with success = False, which holds a name and a repository,
\* is kept in collected_data
C19_Witness ==
    /\ Structured
    /\ RaisedSet # {}
    /\ \E j \in 1..Len(tasks) :
          Status(collected_data[j]) = "Ok" /\ collected_data[j].result = GitHub_Partial
    /\ FusedProfile.name = "Jane L"
    /\ FusedProfile.projects = <<>>
    /\ FusedProfile.metadata.sources = <<"linkedin">>

(***************************************************************************)
(* Provenance and success of the fused profile                             *)
(***************************************************************************)
\* the source tag of a list entry, NoneVal when the entry has none
SourceTag(entry) == Get(entry, "source", NoneVal)

\* C21: every entry of work_history, projects and skills of the profile has a
\* source tag that names the provider it came from (LinkedIn for the work
\* entries and the skills of the LinkedIn payload, GitHub for the projects and
\* the language skills), and every provider so named is in metadata.sources.
C21_SourceTagged ==
    Fused =>
        /\ \A w \in Range(f_out.work_history) : SourceTag(w) = "linkedin"
        /\ \A pr \in Range(f_out.projects) : SourceTag(pr) = "github"
        /\ \A sk \in Range(f_out.skills) :
              IF sk \in Range(Get(f_linkedin, "skills", <<>>))
              THEN SourceTag(sk) = "linkedin" ELSE SourceTag(sk) = "github"
        /\ \A x \in Range(f_out.work_history) \cup Range(f_out.projects)
                      \cup Range(f_out.skills) :
              SourceTag(x) \in Range(f_out.metadata.sources)

\* C29: in the value structure_profile_data returns, metadata.success is true
\* exactly when metadata.sources is not empty, and a provider is in
\* metadata.sources exactly when its payload was given with success = True,
\* on the exception path as well.
C29_SuccessIffSources ==
    Fused =>
        /\ f_out.metadata.success = (f_out.metadata.sources # <<>>)
        /\ "linkedin" \in Range(f_out.metadata.sources) <=> ReportsSuccess(f_linkedin)
        /\ "github" \in Range(f_out.metadata.sources) <=> ReportsSuccess(f_github)

(***************************************************************************)
(* Properties of the whole run                                             *)
(***************************************************************************)
\* run_stalker_ai has given its caller a value or an exception
RunEnded == pc = "returned"

\* no task of the run has an entry with a result
NoOkResult == \A i \in 1..Len(collected_data) : Status(collected_data[i]) = "Error"

\* the error of generate_report_node for a state without collected data
NoDataCollected == "No data collected to generate report."

\* C22: a run whose executor ends with zero Ok task results, because no task was
\* executable or because every task errored, ends with the explicit outcome
\* "no data collected", and the reporting LLM is not called in that run.
C22_NoDataShortCircuit ==
    (RunEnded /\ routed # <<>> /\ NoOkResult) =>
        /\ llm_calls = 0
        /\ error = NoDataCollected
        /\ returned = Return(ErrorReportFor(target_name, NoDataCollected))

\* the reporting LLM was called and gave no report
NarrativeFailed == llm_calls = 1 /\ report = NoneVal

\* the profile structure_profile_data builds from the collected data
ProfileOf(cd) ==
    structure_profile_data(LastResult(cd, "scrape_linkedin"),
                           LastResult(cd, "scrape_github"))

\* a report that is the dump of a profile, with no narrative
DumpText(profile) ==
    [heading |-> "", name |-> <<>>, body |-> "Structured Profile Data", list |-> <<profile>>]

\* C23: when the call of the reporting LLM fails, the run ends without error
\* and the text returned is the dump of the profile built from the collected
\* data.
C23_DumpOnNarrativeFailure ==
    (RunEnded /\ NarrativeFailed) =>
        /\ error = NoneVal
        /\ returned.ret.heading = ""
        /\ returned = Return(DumpText(ProfileOf(collected_data)))

\* the graph was not invoked: no node was entered, no plan made, no provider
\* or LLM called
PipelineNotStarted ==
    /\ entered = <<>> /\ plan = <<>> /\ tasks = <<>> /\ calls = <<>>
    /\ collected_data = <<>> /\ llm_calls = 0

\* C24: run_stalker_ai never lets an exception out.  What it gives back is
\* always a text; an error of the final state, or the exception that left the
\* graph, is in the body of that text; for a persona name that is not
\* configured the text is the invalid-persona error and the pipeline is never
\* started.
C24_AlwaysReturnsText ==
    /\ returned # NonePayload <=> RunEnded
    /\ RunEnded =>
          /\ ~Raised(returned)
          /\ DOMAIN returned.ret = {"heading", "name", "body", "list"}
          /\ TruthyStr(error) => returned.ret.body = error
          /\ exc # NoneVal => returned.ret.body = exc
    /\ persona \notin DOMAIN PERSONAS =>
          /\ PipelineNotStarted
          /\ RunEnded => returned = Return(InvalidPersonaText(persona))

\* an exception left generate_report_node and the caller got the text of the
\* handler, with the message of the exception in it
C24_Witness ==
    /\ RunEnded
    /\ exc = "'NoneType' object has no attribute 'get'"
    /\ returned = Return(ExceptionText(exc))

\* the nodes of the graph, in the order of its edges
NodeOrder == <<"generate_plan", "execute_research", "generate_report">>

IsPrefix(s, t) == Len(s) <= Len(t) /\ \A i \in 1..Len(s) : s[i] = t[i]

\* C26: the nodes are entered in the order generate_plan, execute_research,
\* generate_report, none of them twice; a node that returns, with or without
\* an error, is followed by the next one, and END is reached after all three
\* have been entered once each.
C26_LinearGraph ==
    /\ IsPrefix(entered, NodeOrder)
    /\ pc = "generate_plan" => entered = <<>>
    /\ pc = "execute_research" => entered = <<"generate_plan">>
    /\ pc = "generate_report" => entered = <<"generate_plan", "execute_research">>
    /\ pc = "END" => entered = NodeOrder
    /\ (RunEnded /\ persona \in DOMAIN PERSONAS) => entered = NodeOrder

\* the first node has returned an error and the graph has still gone through
\* the three nodes to END
C26_Witness ==
    /\ pc = "END"
    /\ error = "Planning failed: planner: unexpected error"
    /\ entered = NodeOrder

\* C27: once the error of the state is set, no step changes the plan, the
\* collected data, the sources, the report or the error, and none calls a
\* provider or the reporting LLM; a state with an error has no report, and the
\* run ends with the text of that error.
C27_ErrorLatch ==
    /\ [][TruthyStr(error) =>
              /\ error' = error /\ plan' = plan
              /\ collected_data' = collected_data
              /\ state_sources_log' = state_sources_log
              /\ report' = report
              /\ tasks' = tasks /\ calls' = calls /\ llm_calls' = llm_calls]_vars
    /\ [](TruthyStr(error) => report = NoneVal)
    /\ []((RunEnded /\ TruthyStr(error)) =>
              returned = Return(ErrorReportFor(target_name, error)))

\* the planning node has set the error, the two later nodes have been entered,
\* and the run has ended with that error, without a plan, a provider call or a
\* call of the LLM
C27_Witness ==
    /\ RunEnded
    /\ entered = NodeOrder
    /\ error = "Planning failed: planner: unexpected error"
    /\ plan = <<>> /\ tasks = <<>> /\ collected_data = <<>> /\ llm_calls = 0
    /\ report = NoneVal

(***************************************************************************)
(* Properties of the entries and of the sources the executor records       *)
(***************************************************************************)
\* the value a scraper returns for a failed scrape: success = False and an
\* error message
ScraperFailure(payload) ==
    /\ IsDict(payload)
    /\ Get(payload, "success", TRUE) = FALSE
    /\ TruthyStr(Get(payload, "error", NoneVal))

\* C25: no entry of collected_data has both a result and an error; an entry
\* of a task that is recorded as successful (a result, no error) holds a
\* payload, and that payload is not a scraper's failure value.
C25_OkMeansNoError ==
    ExecDone =>
        /\ \A i \in 1..Len(collected_data) :
              ~({"result", "error"} \subseteq DOMAIN collected_data[i])
        /\ \A j \in 1..Len(tasks) :
              Status(collected_data[j]) = "Ok" =>
                  /\ "result" \in DOMAIN collected_data[j]
                  /\ collected_data[j].result # NonePayload
                  /\ ~ScraperFailure(collected_data[j].result)

\* the references of the entries of a sources log, in order
Refs(log) == [i \in 1..Len(log) |-> log[i].ref]

RECURSIVE LogOfOk(_, _, _)
\* the sources log that the entries of the tasks recorded without error
\* account for: each of them logged in full, in the order of the entries
LogOfOk(cd, i, log) ==
    IF i > Len(cd) THEN log
    ELSE IF Status(cd[i]) = "Ok" /\ cd[i].tool # "data_structuring"
    THEN LogOfOk(cd, i + 1,
                 ProcessResult(cd[i].tool, Return(cd[i].result), <<>>, log).sources_log)
    ELSE LogOfOk(cd, i + 1, log)

\* C30: when execute_research_node has returned, the sources log holds the
\* sources of the tasks recorded without error and nothing else: a task
\* recorded as an error has left no entry in it, wherever its processing
\* failed.
C30_SourcesOnlyFromOk ==
    ExecDone => Refs(state_sources_log) = Refs(LogOfOk(collected_data, 1, <<>>))

(***************************************************************************)
(* Properties of the costs MultiSourceRetriever.search returns             *)
(***************************************************************************)
\* the LLM calls of the search whose response carried a token usage
UsageReported == {i \in Attempts("llm") : IsDict(s_calls[i].tokens)}

RECURSIVE SumTokens(_, _)
SumTokens(S, field) ==
    IF S = {} THEN 0
    ELSE LET i == SetMin(S)
         IN  s_calls[i].tokens[field] + SumTokens(S \ {i}, field)

\* C28: the summary that search returns, and the one get_cost_summary gives
\* right after it, count every call made during the search: each web search,
\* each academic search, and the tokens of each call of the agent's LLM.
C28_SummaryCountsEveryCall ==
    s_pc \in {"returned", "summarised"} =>
        /\ sr_costs.tavily_searches = Cardinality(Attempts("_search_web"))
        /\ sr_costs.arxiv_searches = Cardinality(Attempts("_search_arxiv"))
        /\ sr_costs.prompt_tokens = SumTokens(UsageReported, "prompt_tokens")
        /\ sr_costs.completion_tokens = SumTokens(UsageReported, "completion_tokens")
        /\ sr_costs.total_tokens = SumTokens(UsageReported, "total_tokens")

====
